---- MODULE Spec2Model ----
(***************************************************************************)
(* A model of the FAT16/FAT32 volume engine of inky-frame (src/src/fs):   *)
(* the FAT (offset, next, update, free, allocate, truncate), the          *)
(* directory scan and slot search, entry creation, the File cursor and    *)
(* the shared scratch buffers.                                            *)
(*                                                                         *)
(* Representation.                                                         *)
(*   - A Block is a function 0..SIZE-1 -> 0..255, as Block([u8; 0x200]).   *)
(*   - The device is sparse: dev maps the sectors that hold data to their  *)
(*     Block, every other sector reads as zeroes.                          *)
(*   - Cluster = Option<ClusterIndex> is a number, None being 0 (the       *)
(*     NonZeroU32 niche).                                                  *)
(*   - A Rust function that takes (&self, tmp: &mut Block, ...) and        *)
(*     returns DevResult<T> is an operator on a machine record m           *)
(*     (MState) that returns the machine after the call: m.err is "" for   *)
(*     Ok and the DeviceError name for Err, m.ret is the Ok value.  The    *)
(*     scratch block is named by "a" (Cache::block_a) or "b"               *)
(*     (Cache::block_b).                                                   *)
(*   - A u32 is held as a 32-bit two's complement integer (0xFFFFFFFF is   *)
(*     -1): + - * then wrap as in a release build, and the unsigned       *)
(*     comparisons and divisions are ult, ule, udiv.                      *)
(***************************************************************************)
EXTENDS Integers, Sequences, FiniteSets, TLC

VARIABLES vol, dev, block_a, block_b, lfn, info, file, chain, hist, res, steps,
          spin, calls

vars == <<vol, dev, block_a, block_b, lfn, info, file, chain, hist, res, steps,
          spin, calls>>

----------------------------------------------------------------------------
(* Program constants *)

SIZE == 512
DIR_SIZE == 32
LFN_SIZE == 255
CLUSTER_EOF == -1
EMPTY == -4

(* Bounds of the model *)

MaxSteps == 4

----------------------------------------------------------------------------
(* Bytes and blocks: lib.rs Slice / SliceMut *)

ZeroBlock == [i \in 0..(SIZE - 1) |-> 0]

(* the value of a one-element set: { body : x \in {e} } binds x to the *)
(* value of e once, however often body uses it                          *)
The(S) == CHOOSE r \in S : TRUE

Min(a, b) == IF a < b THEN a ELSE b
Max(a, b) == IF a > b THEN a ELSE b

(* unsigned order and division of u32 values *)
ult(a, b) == IF (a < 0) = (b < 0) THEN a < b ELSE b < 0
ule(a, b) == a = b \/ ult(a, b)
umin(a, b) == IF ult(a, b) THEN a ELSE b
udiv(x, d) == IF x < 0 THEN (x \div d) + (2147483647 \div d) + 1 + (2147483647 \div d) + 1 ELSE x \div d

read_u8(b, i) == b[i]
read_u16(b, i) == b[i] + 256 * b[i + 1]
read_u32(b, i) ==
    b[i] + 256 * b[i + 1] + 65536 * b[i + 2]
    + 16777216 * (IF b[i + 3] >= 128 THEN b[i + 3] - 256 ELSE b[i + 3])

write_u8(b, i, v) == [b EXCEPT ![i] = v % 256]
write_u16(b, i, v) ==
    [b EXCEPT ![i] = v % 256, ![i + 1] = (v \div 256) % 256]
write_u32(b, i, v) ==
    [b EXCEPT ![i] = v % 256, ![i + 1] = (v \div 256) % 256,
              ![i + 2] = (v \div 65536) % 256, ![i + 3] = (v \div 16777216) % 256]

Pow256(n) == IF n = 0 THEN 1 ELSE IF n = 1 THEN 256 ELSE IF n = 2 THEN 65536 ELSE 16777216

(* bitwise or of two naturals below 2^n *)
RECURSIVE BitOr(_, _, _)
BitOr(x, y, n) ==
    IF n = 0 THEN 0
    ELSE (IF (x % 2) + (y % 2) > 0 THEN 1 ELSE 0) + 2 * BitOr(x \div 2, y \div 2, n - 1)

RECURSIVE BitAnd(_, _, _)
BitAnd(x, y, n) ==
    IF n = 0 THEN 0
    ELSE (IF (x % 2) + (y % 2) = 2 THEN 1 ELSE 0) + 2 * BitAnd(x \div 2, y \div 2, n - 1)

----------------------------------------------------------------------------
(* The machine record threaded through the operators *)

(* f is the File the call acts on or returns, x the DirectoryIndex and w  *)
(* the BlockEntryIter of the call, junk what an uninitialised block holds; *)
(* rd, wr and al record the sectors read and written and the clusters      *)
(* allocated                                                               *)
MState(d, a, b, l, i, f) ==
    [dev |-> d, a |-> a, b |-> b, lfn |-> l, info |-> i, f |-> f,
     x |-> 0, w |-> 0, junk |-> ZeroBlock,
     cache |-> -1, rd |-> {}, wr |-> {}, al |-> <<>>, err |-> "", ret |-> 0]

Fail(m, e) == [m EXCEPT !.err = e]
Ret(m, v) == [m EXCEPT !.ret = v]
IsOk(m) == m.err = ""

Buf(m, t) == IF t = "a" THEN m.a ELSE m.b
SetBuf(m, t, blk) == IF t = "a" THEN [m EXCEPT !.a = blk] ELSE [m EXCEPT !.b = blk]

(* the sparse device *)
DevRead(d, n) == IF n \in DOMAIN d THEN d[n] ELSE ZeroBlock
DevWrite(d, n, blk) == [x \in (DOMAIN d) \cup {n} |-> IF x = n THEN blk ELSE d[x]]

dev_read_single(m, t, n) ==
    [SetBuf(m, t, DevRead(m.dev, n)) EXCEPT !.rd = @ \cup {n}]
dev_write_single(m, t, n) ==
    [m EXCEPT !.dev = DevWrite(m.dev, n, Buf(m, t)), !.wr = @ \cup {n}]

(* BlockCache(Option<u32>): None is -1.  m.cache is the BlockCache the  *)
(* callee was handed.                                                   *)
NoCache == -1
cache_read_single(m, t, pos) ==
    LET old == m.cache
        m1 == [m EXCEPT !.cache = pos]
    IN  IF old # pos THEN dev_read_single(m1, t, pos) ELSE m1
cache_clear(m) == [m EXCEPT !.cache = NoCache]

----------------------------------------------------------------------------
(* Volume::new: the geometry computed from the boot sector *)

VolumeNew(bpb, lba, blocks) ==
    LET e == bpb.root_entries * DIR_SIZE
        h == e \div SIZE
        c == bpb.total
        r == bpb.reserved
        s == bpb.fats
        k == bpb.per_cluster
        n == (c - (r + s + (IF e # h THEN h + 1 ELSE h))) \div k
    IN  IF n <= 65525
        THEN [fat32 |-> FALSE, sector |-> bpb.root_entries, count |-> n,
              blocks |-> blocks, clusters |-> k, fat |-> r, lba |-> lba,
              data |-> r + s + ((e + (SIZE - 1)) \div SIZE), root |-> r + s]
        ELSE [fat32 |-> TRUE, sector |-> bpb.info + lba, count |-> n,
              blocks |-> blocks, clusters |-> k, fat |-> r, lba |-> lba,
              data |-> r + s, root |-> bpb.root]

Blocks_bytes == vol.clusters * SIZE
Blocks_blocks == vol.clusters

(* Volume::offset: byte offset and sector of the FAT entry of idx *)
offset(idx) ==
    LET v == IF vol.fat32 THEN 4 ELSE 2
        x == idx * v
    IN  [i |-> x % SIZE, n |-> vol.lba + (vol.fat + udiv(x, SIZE))]

block_pos_at(idx) ==
    vol.lba + vol.data + ((idx - 2) * Blocks_blocks)

root(idx) == IF idx # 0 THEN idx ELSE vol.root
block_pos(idx) == block_pos_at(root(idx))

entries(idx) ==
    IF idx # 0 THEN Blocks_blocks
    ELSE IF vol.fat32 THEN Blocks_blocks
    ELSE vol.sector * DIR_SIZE

----------------------------------------------------------------------------
(* Clusters: the free-count and next-free hints *)

sub_one(v) == IF v = 0 THEN 0 ELSE IF v = 1 THEN 0 ELSE v - 1
add_one(v) == IF v = 0 THEN 1 ELSE IF v = -1 THEN -1 ELSE v + 1

free_add(m) == [m EXCEPT !.info.free = add_one(@)]
free_remove(m) == [m EXCEPT !.info.free = sub_one(@)]
next_set(m, v) == [m EXCEPT !.info.next = v]
free_set(m, v) ==
    IF m.info.free # 0 /\ ule(m.info.free, v) THEN m
    ELSE [m EXCEPT !.info.free = v]

----------------------------------------------------------------------------
(* Volume::next: the FAT entry of idx decoded *)

next_decode(blk, s) ==
    IF ~vol.fat32
    THEN IF s + 2 > SIZE THEN [err |-> "InvalidCluster", ret |-> 0]
         ELSE LET v == read_u16(blk, s)
              IN  IF v = 0 THEN [err |-> "InvalidChain", ret |-> 0]
                  ELSE IF v = 65527 THEN [err |-> "InvalidCluster", ret |-> 0]
                  ELSE IF v >= 65528 THEN [err |-> "", ret |-> 0]
                  ELSE [err |-> "", ret |-> v]
    ELSE IF s + 4 > SIZE THEN [err |-> "InvalidCluster", ret |-> 0]
         ELSE LET v == read_u32(blk, s) % 268435456
              IN  IF v = 0 THEN [err |-> "InvalidChain", ret |-> 0]
                  ELSE IF v = 268435447 THEN [err |-> "InvalidCluster", ret |-> 0]
                  ELSE IF v = 1 \/ v >= 268435448 THEN [err |-> "", ret |-> 0]
                  ELSE [err |-> "", ret |-> v]

next(m, t, idx) ==
    The({ The({ [m1 EXCEPT !.err = r.err, !.ret = r.ret]
                : r \in {next_decode(Buf(m1, t), offset(idx).i)} })
          : m1 \in {cache_read_single(m, t, offset(idx).n)} })

(* (old & 0xF0000000) | val *)
or_top(old, val) ==
    The({ 268435456 * (IF nib >= 8 THEN nib - 16 ELSE nib) + (val % 268435456)
          : nib \in {BitOr((old \div 268435456) % 16, (val \div 268435456) % 16, 4)} })

(* Volume::update: the write of the entry, skipped in the last slot of a *)
(* sector by the guards i + 4 < SIZE and i + 2 < SIZE                    *)
update_entry(b1, i, val) ==
    IF vol.fat32
    THEN IF i + 4 < SIZE THEN write_u32(b1, i, or_top(read_u32(b1, i), val)) ELSE b1
    ELSE IF i + 2 < SIZE THEN write_u16(b1, i, val % 65536) ELSE b1

update(m, t, idx, val) ==
    The({ dev_write_single(SetBuf(m1, t, update_entry(Buf(m1, t), offset(idx).i, val)),
                           t, offset(idx).n)
          : m1 \in {dev_read_single(m, t, offset(idx).n)} })

(* Volume::free: the first FAT entry that reads 0, scanning from start. *)
(* The inner loop runs to the end of the sector whatever `end` is; the  *)
(* slots of one sector are searched at once for the lowest zero entry.  *)
free_width == IF vol.fat32 THEN 4 ELSE 2

free_slots(blk, i) ==
    {j \in 0..((SIZE - free_width - i) \div free_width) :
        IF vol.fat32 THEN read_u32(blk, i + j * 4) % 268435456 = 0
                     ELSE read_u16(blk, i + j * 2) = 0}

Lowest(S) == CHOOSE j \in S : \A j2 \in S : j <= j2

RECURSIVE free(_, _, _, _)
free(m, t, start, end) ==
    IF ~ult(start, end) THEN Fail(m, "NoSpace")
    ELSE The({ The({ IF slots # {} THEN Ret(m1, start + Lowest(slots))
                     ELSE free(m1, t,
                               start + ((SIZE - free_width - offset(start).i) \div free_width) + 1,
                               end)
                     : slots \in {free_slots(Buf(m1, t), offset(start).i)} })
               : m1 \in {dev_read_single(m, t, offset(start).n)} })

free_try(m, t, start, end) ==
    The({ IF IsOk(m1) THEN m1
          ELSE IF start > 2 THEN free([m1 EXCEPT !.err = ""], t, 2, end)
          ELSE m1
          : m1 \in {free(m, t, start, end)} })

RECURSIVE zero_fill(_, _, _, _)
zero_fill(m, t, i, last) ==
    IF i > last THEN m
    ELSE The({ zero_fill(m1, t, i + 1, last) : m1 \in {dev_write_single(m, t, i)} })

(* Volume::allocate, after the new cluster n was found *)
allocate_found(m1, t, prev, zero, e, n) ==
    The({ The({ The({ IF ~IsOk(m4) THEN m4
                      ELSE The({ Ret(IF zero
                                     THEN zero_fill(SetBuf([m5 EXCEPT !.al = Append(@, n)],
                                                           t, ZeroBlock), t,
                                                    block_pos_at(n),
                                                    block_pos_at(n) + Blocks_blocks)
                                     ELSE [m5 EXCEPT !.al = Append(@, n)], n)
                                 : m5 \in {free_remove(next_set(m4, m4.ret))} })
                      : m4 \in {free_try(m3, t, n, e)} })
                : m3 \in {IF prev # 0 THEN update(m2, t, prev, n) ELSE m2} })
          : m2 \in {update(m1, t, n, CLUSTER_EOF)} })

(* Volume::allocate *)
allocate(m, t, prev, zero) ==
    The({ IF ~IsOk(m1) THEN m1
          ELSE allocate_found(m1, t, prev, zero, vol.blocks + 2, m1.ret)
          : m1 \in {free_try(m, t,
                             IF prev # 0 /\ ult(prev, vol.blocks + 2) THEN prev ELSE 2,
                             vol.blocks + 2)} })

(* Volume::truncate: the loop that frees the tail from x on *)
RECURSIVE truncate_loop(_, _, _)
truncate_loop(m, t, x) ==
    The({ IF ~IsOk(m1) THEN m1
          ELSE The({ IF m1.ret = 0 THEN m2
                     ELSE The({ truncate_loop(m3, t, m1.ret) : m3 \in {free_add(m2)} })
                     : m2 \in {update(m1, t, x, 0)} })
          : m1 \in {next(cache_clear(m), t, x)} })

is_valid(idx) == ult(2, idx)

(* Volume::truncate *)
truncate(m, t, idx) ==
    IF ~is_valid(idx) THEN m
    ELSE The({ IF ~IsOk(m1) THEN m1
               ELSE IF m1.ret = 0 THEN m1
               ELSE The({ truncate_loop(m2, t, m1.ret)
                          : m2 \in {update(free_set(m1, m1.ret), t, idx, CLUSTER_EOF)} })
               : m1 \in {next(cache_clear(m), t, idx)} })

----------------------------------------------------------------------------
(* Mode and File: fs/volume/file.rs *)

READ == 0
WRITE == 1
CREATE == 2
APPEND == 4
TRUNCATE == 8

(* DirEntry::index *)
index(e) == IF e.cluster # 0 THEN e.cluster ELSE EMPTY

(* File::new: the handle over a directory entry *)
FileNew(entry, mode) ==
    [lfn |-> entry.lfn, name |-> entry.name, cluster |-> entry.cluster,
     size |-> entry.size, attrs |-> entry.attrs, block |-> entry.block,
     offset |-> entry.offset,
     last |-> index(entry), short |-> 0, pos |-> 0, mode |-> mode]

is_writeable(f) == BitAnd(f.mode, WRITE, 8) # 0
is_allocated(f) == f.cluster # 0 /\ is_valid(f.cluster)

(* File::data: the loop that follows the chain from last *)
RECURSIVE data_walk(_, _, _)
data_walk(m, t, k) ==
    IF k = 0 THEN m
    ELSE The({ IF ~IsOk(m1) THEN m1
               ELSE IF m1.ret = 0 THEN Fail(m1, "EndOfFile")
               ELSE The({ data_walk(m2, t, k - 1)
                          : m2 \in {[m1 EXCEPT !.f.last = m1.ret,
                                               !.f.short = @ + Blocks_bytes]} })
               : m1 \in {next(m, t, m.f.last)} })

(* File::data: Ok((i, o, a)) is the record m.ret *)
data(m, t) ==
    The({ The({ IF ~IsOk(m2) THEN m2
                ELSE Ret(m2, [i |-> block_pos_at(m2.f.last)
                                    + udiv(m2.f.pos - m2.f.short, SIZE),
                              o |-> m2.f.pos % SIZE,
                              a |-> SIZE - (m2.f.pos % SIZE)])
                : m2 \in {data_walk(m1, t, udiv(m1.f.pos - m1.f.short, Blocks_bytes))} })
          : m1 \in {cache_clear(IF ult(m.f.pos, m.f.short)
                                THEN [m EXCEPT !.f.short = 0, !.f.last = index(m.f)]
                                ELSE m)} })

(* copy_nonoverlapping(b + p, d + o, n) *)
write_copy(blk, o, n, bytes, p) ==
    [k \in 0..(SIZE - 1) |->
        IF k >= o /\ k < o + n THEN bytes[p + (k - o) + 1] ELSE blk[k]]

(* File::write: the end of the loop *)
write_done(m, p) == Ret([m EXCEPT !.f.attrs = BitOr(@, 32, 8)], p)

(* File::write: the Err(EndOfFile) arm of the match on data *)
write_extend(m, t) ==
    The({ IF ~IsOk(m1) THEN m1
          ELSE The({ IF IsOk(m2) THEN m2 ELSE Fail(m2, "Write") : m2 \in {data(m1, t)} })
          : m1 \in {allocate([m EXCEPT !.err = ""], t, m.f.cluster, FALSE)} })

RECURSIVE write_loop(_, _, _, _, _)

(* File::write: the body of the loop after data gave d = (i, o, a) *)
write_block(m, d, bytes, t, p, l, n) ==
    IF n = 0 THEN write_done(m, p)
    ELSE The({ The({ write_loop(m2, bytes, t, p + n,
                                IF d.o # 0 /\ l # d.i THEN d.i ELSE l)
                     : m2 \in {[dev_write_single(
                                   SetBuf(m1, "a", write_copy(Buf(m1, "a"), d.o, n, bytes, p)),
                                   "a", d.i)
                                EXCEPT !.f.pos = @ + n, !.f.size = @ + n]} })
               : m1 \in {IF d.o # 0 /\ l # d.i THEN dev_read_single(m, "a", d.i) ELSE m} })

(* File::write: while p < t *)
write_loop(m, bytes, t, p, l) ==
    IF p >= t THEN write_done(m, p)
    ELSE The({ The({ IF ~IsOk(m2) THEN m2
                     ELSE write_block(m2, m2.ret, bytes, t, p, l, Min(m2.ret.a, t - p))
                     : m2 \in {IF m1.err = "EndOfFile" THEN write_extend(m1, "a") ELSE m1} })
               : m1 \in {data(m, "a")} })

(* File::write: from `let c = self.file.cluster` on *)
write_start(m, bytes) ==
    The({ write_loop(m1, bytes, umin(Len(bytes), (-1) - m1.f.pos), 0, -1)
          : m1 \in {IF ult(m.f.last, m.f.cluster)
                    THEN [m EXCEPT !.f.last = m.f.cluster, !.f.short = 0]
                    ELSE m} })

(* File::write; the scratch block is Cache::block_a *)
write(m, bytes) ==
    IF ~is_writeable(m.f) THEN Fail(m, "NotWritable")
    ELSE IF bytes = <<>> THEN Ret(m, 0)
    ELSE IF is_allocated(m.f) THEN write_start([m EXCEPT !.f.mode = BitOr(@, 128, 8)], bytes)
    ELSE The({ IF ~IsOk(m1) THEN m1
               ELSE write_start([SetBuf(m1, "a", ZeroBlock) EXCEPT !.f.cluster = m1.ret],
                                bytes)
               : m1 \in {allocate([m EXCEPT !.f.mode = BitOr(@, 128, 8)], "a", 0, FALSE)} })

(* Seek::seek(SeekFrom::Start(v)) *)
seek_start(m, v) ==
    IF v > m.f.size THEN Fail(m, "InvalidIndex")
    ELSE Ret([m EXCEPT !.f.pos = v], v)

----------------------------------------------------------------------------
(* Names: fs/volume/name.rs.  A name given by the caller is a sequence of  *)
(* byte codes; LongName and ShortName are their byte arrays, indexed from  *)
(* 0.  LongName::lfn and to_lfn, which file.rs uses, are the fill_lfn and  *)
(* pos_to_lfn of name.rs.                                                  *)

SFN_SIZE == 11
SIZE_NAME == 8
SIZE_PER_BLOCK == SIZE \div DIR_SIZE

LongEmpty == [i \in 0..(LFN_SIZE - 1) |-> 0]
ShortEmpty == [i \in 0..(SFN_SIZE - 1) |-> 32]
ShortSelf == [i \in 0..(SFN_SIZE - 1) |-> IF i = 0 THEN 46 ELSE 32]
ShortParent == [i \in 0..(SFN_SIZE - 1) |-> IF i < 2 THEN 46 ELSE 32]

(* LongName::len: the position of the first 0 *)
len(l) ==
    The({ IF z = {} THEN LFN_SIZE ELSE Lowest(z) : z \in {{i \in 0..(LFN_SIZE - 1) : l[i] = 0}} })

(* LongName::as_bytes *)
as_bytes(l) == The({ [i \in 1..n |-> l[i - 1]] : n \in {len(l)} })

(* LongName::lfn_size *)
lfn_size(l) ==
    The({ IF r <= 13 THEN 1
          ELSE IF ((r + 1) \div 12) * 12 = r + 1 THEN (r + 1) \div 12
          ELSE ((r + 2) \div 12) + 1
          : r \in {len(l)} })

(* LongName::fill_inner: the bytes after the name stay as they were *)
fill_inner(l, v) ==
    [i \in 0..(LFN_SIZE - 1) |-> IF i < Len(v) THEN v[i + 1] ELSE l[i]]

(* LongName::pos_to_lfn *)
pos_to_lfn(v) == <<1, 3, 5, 7, 9, 14, 16, 18, 20, 22, 24, 28, 30>>[v + 1]

(* LongName::fill_lfn: the characters of the LFN record at b[s..], up to *)
(* the first 0, put at (ordinal - 1) * 13                                *)
lfn_chars(b, s) ==
    The({ IF z = {} THEN 13 ELSE Lowest(z)
          : z \in {{i \in 0..12 : b[s + pos_to_lfn(i)] = 0}} })

fill_lfn(l, b, s) ==
    The({ IF ord = 0 THEN l
          ELSE [i \in 0..(LFN_SIZE - 1) |->
                   IF i >= (ord - 1) * 13 /\ i < (ord - 1) * 13 + lfn_chars(b, s)
                   THEN b[s + pos_to_lfn(i - (ord - 1) * 13)]
                   ELSE l[i]]
          : ord \in {b[s] % 32} })

(* ShortName::checksum *)
RECURSIVE checksum_from(_, _, _)
checksum_from(n, i, c) ==
    IF i = SFN_SIZE THEN c
    ELSE checksum_from(n, i + 1, (((c % 2) * 128) + ((c \div 2) + n[i])) % 256)

checksum(n) == checksum_from(n, 0, 0)

(* ShortName::transform_char *)
transform_char(v) ==
    IF v <= 32 \/ v \in {34, 42, 43, 44, 47, 58, 59, 60, 61, 62, 63, 91, 92, 93, 124} THEN 43
    ELSE IF v >= 97 /\ v <= 122 THEN v - 32
    ELSE v

(* the last position of a '.' in b, counted from 0; -1 for none *)
rposition_dot(b) ==
    The({ IF d = {} THEN -1 ELSE CHOOSE i \in d : \A j \in d : j <= i
          : d \in {{i \in 0..(Len(b) - 1) : b[i + 1] = 46}} })

(* ShortName::to_sfn: the extension, then the name, written over sfn *)
sfn_ext(b, sfn, i) ==
    [k \in 0..(SFN_SIZE - 1) |->
        IF i >= 0 /\ k >= SIZE_NAME /\ k - SIZE_NAME < Min(Len(b) - (i + 1), 3)
        THEN b[i + 1 + (k - SIZE_NAME) + 1]
        ELSE sfn[k]]

sfn_name(b, sfn, n) ==
    [k \in 0..(SFN_SIZE - 1) |->
        IF k >= SIZE_NAME THEN sfn[k]
        ELSE IF n < SIZE_NAME THEN (IF k < n THEN b[k + 1] ELSE 32)
        ELSE IF n = SIZE_NAME THEN b[k + 1]
        ELSE IF k < SIZE_NAME - 2 THEN b[k + 1]
        ELSE IF k = SIZE_NAME - 2 THEN 126
        ELSE 49]

sfn_flat(sfn, n) ==
    [k \in 0..(SFN_SIZE - 1) |->
        IF k >= SIZE_NAME THEN sfn[k]
        ELSE transform_char(IF k < Min(n, SIZE_NAME) /\ sfn[k] = 32 THEN 95 ELSE sfn[k])]

to_sfn(b, sfn) ==
    IF Len(b) = 0 THEN sfn
    ELSE IF Len(b) = 1 /\ b[1] = 46 THEN ShortSelf
    ELSE IF Len(b) = 2 /\ b[1] = 46 /\ b[2] = 46 THEN ShortParent
    ELSE The({ sfn_flat(sfn_name(b, sfn_ext(b, sfn, i), IF i >= 0 THEN i ELSE Len(b)),
                        IF i >= 0 THEN i ELSE Len(b))
               : i \in {rposition_dot(b)} })

(* PartialEq<[u8]> for ShortName *)
sfn_eq(n, other) == to_sfn(other, ShortEmpty) = n

(* ShortName::as_str, as bytes *)
extension_len(n) ==
    IF n[8] = 32 /\ n[9] = 32 /\ n[10] = 32 THEN 0
    ELSE IF n[9] = 32 /\ n[10] = 32 THEN 1
    ELSE IF n[10] = 32 THEN 2
    ELSE 3

sfn_str(n) ==
    IF extension_len(n) = 0
    THEN The({ [i \in 1..k |-> n[i - 1]]
               : k \in {IF \E i \in 0..(SIZE_NAME - 1) : n[i] = 32
                        THEN Lowest({i \in 0..(SIZE_NAME - 1) : n[i] = 32})
                        ELSE SIZE_NAME} })
    ELSE [i \in 1..(SIZE_NAME + extension_len(n)) |-> n[i - 1]]

----------------------------------------------------------------------------
(* DirEntry and DirEntryFull: fs/volume/file.rs *)

(* DirEntry::new *)
DirEntryNew(attrs, l) ==
    [lfn |-> l, name |-> ShortEmpty, size |-> 0, attrs |-> attrs, block |-> 0,
     offset |-> 0, cluster |-> 0]

(* DirEntry::new_root *)
new_root == DirEntryNew(16, 0)

is_directory(e) == (e.attrs \div 16) % 2 = 1
is_file(e) == ~is_directory(e) /\ (e.attrs \div 8) % 2 = 0

(* time_write of Time::empty(): Time is defined outside this source tree; *)
(* the time word is 0 and the date word holds month + 1 and day + 1       *)
time_write(k) == <<0, 0, 33, 0>>[k + 1]

(* DirEntry::write_entry: the 32 bytes of the short record *)
write_entry(e, f) ==
    [k \in 0..(DIR_SIZE - 1) |->
        IF k < SFN_SIZE THEN e.name[k]
        ELSE IF k = 11 THEN e.attrs
        ELSE IF k \in {12, 13, 18, 19} THEN 0
        ELSE IF k \in 14..17 THEN time_write(k - 14)
        ELSE IF k = 20 THEN (IF f THEN (index(e) \div 65536) % 256 ELSE 0)
        ELSE IF k = 21 THEN (IF f THEN (index(e) \div 16777216) % 256 ELSE 0)
        ELSE IF k \in 22..25 THEN time_write(k - 22)
        ELSE IF k = 26 THEN index(e) % 256
        ELSE IF k = 27 THEN (index(e) \div 256) % 256
        ELSE (e.size \div Pow256(k - 28)) % 256]

(* DirEntry::write_lfn_entry: the 32 bytes of LFN record pos of s; p0 is *)
(* the count of characters it takes from the name                        *)
lfn_entry(l, e, pos, s, start, p0) ==
    [k \in 0..(DIR_SIZE - 1) |->
        IF k = 0 THEN BitOr(IF pos = 0 THEN 64 ELSE 0, s - pos, 8)
        ELSE IF k = 11 THEN 15
        ELSE IF k = 13 THEN checksum(e.name)
        ELSE IF k \in {12, 26, 27} THEN 0
        ELSE IF \E j \in 0..(p0 - 1) : pos_to_lfn(j) = k
             THEN l[start + (CHOOSE j \in 0..(p0 - 1) : pos_to_lfn(j) = k)]
        ELSE IF p0 + 1 < 12 /\ k >= pos_to_lfn(p0 + 1) THEN 255
        ELSE 0]

write_lfn_entry(l, e, pos, s) ==
    lfn_entry(l, e, pos, s, (s - 1 - pos) * 13,
              Max(0, Min(((s - 1 - pos) * 13) + 13, len(l)) - ((s - 1 - pos) * 13)))

(* the 32 bytes rec stored at b[v..] *)
put(b, v, rec) ==
    [k \in 0..(SIZE - 1) |-> IF k >= v /\ k < v + DIR_SIZE THEN rec[k - v] ELSE b[k]]

----------------------------------------------------------------------------
(* DirectoryIndex: fs/volume/iter.rs.  m.x is the DirectoryIndex, its buf *)
(* is Cache::block_b and the name of its DirEntryFull is Cache::lfn.      *)

DirectoryIndexNew ==
    [block |-> 0, blocks |-> 0, entry |-> 0, cluster |-> EMPTY, cache |-> NoCache,
     sum |-> 0, ent |-> DirEntryNew(0, 0)]

(* self.cache.read_single(self.vol.dev, &mut self.buf, pos) *)
x_read(m, pos) ==
    The({ [m1 EXCEPT !.x.cache = m1.cache]
          : m1 \in {cache_read_single([m EXCEPT !.cache = m.x.cache], "b", pos)} })

(* self.vol.next(&mut self.buf, &mut self.cache, self.cluster) *)
x_fat_next(m) ==
    The({ [m1 EXCEPT !.x.cache = m1.cache]
          : m1 \in {next([m EXCEPT !.cache = m.x.cache], "b", m.x.cluster)} })

(* DirectoryIndex::reset_cluster *)
reset_cluster(m, dir) ==
    The({ x_read(m1, m1.x.block)
          : m1 \in {[m EXCEPT !.x.entry = 0, !.x.cache = NoCache,
                              !.x.cluster = root(dir),
                              !.x.block = block_pos_at(root(dir)),
                              !.x.blocks = block_pos_at(root(dir)) + entries(dir)]} })

(* DirectoryIndex::is_complete; m.ret is the bool *)
is_complete(m) ==
    IF m.x.entry < SIZE_PER_BLOCK THEN Ret(m, FALSE)
    ELSE IF ult(m.x.block + 1, m.x.blocks)
    THEN Ret(x_read([m EXCEPT !.x.entry = 0, !.x.block = @ + 1], m.x.block + 1), FALSE)
    ELSE The({ IF ~IsOk(m1) THEN m1
               ELSE IF m1.ret = 0 THEN Ret(m1, TRUE)
               ELSE Ret(x_read([m1 EXCEPT !.x.cluster = m1.ret,
                                          !.x.block = block_pos_at(m1.ret),
                                          !.x.blocks = block_pos_at(m1.ret) + Blocks_blocks],
                               block_pos_at(m1.ret)), FALSE)
               : m1 \in {x_fat_next([m EXCEPT !.x.entry = 0, !.x.block = @ + 1])} })

(* DirEntryFull::reset *)
val_reset(m) == [m EXCEPT !.lfn = LongEmpty, !.x.sum = 0, !.x.ent.lfn = 0]

(* DirEntryFull::fill on the record at buf[s..] *)
val_fill(m, s) == [m EXCEPT !.lfn = fill_lfn(m.lfn, m.b, s), !.x.sum = m.b[s + 13]]

(* the start cluster a short record holds *)
load_cluster(b, s, f) ==
    IF f THEN read_u16(b, s + 26)
              + 65536 * (IF read_u16(b, s + 20) >= 32768 THEN read_u16(b, s + 20) - 65536
                         ELSE read_u16(b, s + 20))
    ELSE read_u16(b, s + 26)

(* DirEntryFull::load of the record at buf[s..] *)
load(m, f, s) ==
    The({ [m EXCEPT !.lfn = IF m.x.sum = checksum(n) THEN @ ELSE LongEmpty,
                    !.x.ent = [lfn |-> IF m.x.sum = checksum(n) THEN lfn_size(m.lfn) ELSE 0,
                               name |-> n, size |-> read_u32(m.b, s + 28),
                               attrs |-> m.b[s + 11], block |-> m.x.block, offset |-> s,
                               cluster |-> load_cluster(m.b, s, f)]]
          : n \in {[k \in 0..(SFN_SIZE - 1) |-> m.b[s + k]]} })

(* DirectoryIndex::next; m.ret is TRUE for Some(&mut self.val) *)
RECURSIVE x_next(_, _)
RECURSIVE x_scan(_)

x_scan(m) ==
    IF m.x.entry >= SIZE_PER_BLOCK THEN x_next(m, FALSE)
    ELSE IF m.b[m.x.entry * DIR_SIZE] = 0 THEN Ret(m, FALSE)
    ELSE The({ The({ IF v % 16 = 15 THEN The({ x_scan(m2) : m2 \in {val_fill(m1, s)} })
                     ELSE IF ((v \div 8) % 2 = 1 /\ m1.b[s + 28] = 0) \/ m1.b[s] = 229
                     THEN x_scan(m1)
                     ELSE Ret(load(m1, vol.fat32, s), TRUE)
                     : v \in {m.b[s + 11]}, m1 \in {[m EXCEPT !.x.entry = @ + 1]} })
               : s \in {m.x.entry * DIR_SIZE} })

x_next(m, r) ==
    The({ IF ~IsOk(m1) THEN m1
          ELSE IF m1.ret THEN Ret(m1, FALSE)
          ELSE The({ x_scan(m2) : m2 \in {IF r THEN val_reset(m1) ELSE m1} })
          : m1 \in {is_complete(m)} })

(* PartialEq<[u8]> for DirEntryFull *)
val_eq(m, other) ==
    IF m.x.ent.lfn = 0 THEN sfn_eq(m.x.ent.name, other) ELSE as_bytes(m.lfn) = other

(* DirEntryFull::name, as bytes *)
val_name(m) ==
    IF m.x.ent.lfn = 0 \/ m.lfn[0] = 0 THEN sfn_str(m.x.ent.name) ELSE as_bytes(m.lfn)

(* DirectoryIndex::find(|e| e.eq(name)); m.ret is [some, e, name] *)
RECURSIVE index_find(_, _)
index_find(m, name) ==
    The({ IF ~IsOk(m1) THEN m1
          ELSE IF ~m1.ret THEN Ret(m1, [some |-> FALSE])
          ELSE IF val_eq(m1, name)
          THEN Ret([m1 EXCEPT !.x.ent = DirEntryNew(0, 0)],
                   [some |-> TRUE, e |-> m1.x.ent, name |-> val_name(m1)])
          ELSE index_find(m1, name)
          : m1 \in {x_next(m, TRUE)} })

----------------------------------------------------------------------------
(* Range and RangeIter: fs/volume/iter.rs *)

RangeIndexNew == [c |-> 0, b |-> 0, e |-> 0]
RangeNew == [sel |-> [i \in 0..9 |-> RangeIndexNew], sum |-> 0, index |-> 0]

range_clear(r) == [r EXCEPT !.sum = 0, !.index = 0]

(* Range::finish *)
finish(r, c, b, e) == [r EXCEPT !.sel[r.index] = [c |-> c, b |-> b, e |-> e]]

(* Range::mark *)
mark(r, c, b, e) ==
    IF r.index = 0
    THEN [r EXCEPT !.sel[0] = [c |-> c, b |-> b, e |-> e], !.index = 1, !.sum = 1]
    ELSE IF r.sel[r.index - 1].c # c \/ r.sel[r.index - 1].b # b
    THEN IF r.index >= 9
         THEN [r EXCEPT !.sel[0] = [c |-> c, b |-> b, e |-> e], !.index = 1, !.sum = 1]
         ELSE [r EXCEPT !.sel[r.index] = [c |-> c, b |-> b, e |-> e], !.index = @ + 1,
                        !.sum = @ + 1]
    ELSE [r EXCEPT !.sum = @ + 1]

(* IntoIterator for Range *)
into_iter(r) == [pos |-> 0, cur |-> r.sel[0], range |-> r]

(* RangeIter::is_next *)
is_next(it) ==
    IF it.cur.e >= SIZE_PER_BLOCK THEN TRUE
    ELSE IF it.pos + 1 < it.range.index THEN FALSE
    ELSE it.range.sel[it.pos + 1].e = 0 \/ it.cur.e > it.range.sel[it.pos + 1].e

(* Iterator for RangeIter: [some, it, b, l, o], the item being (_, b, l, o) *)
iter_next(it) ==
    IF is_next(it)
    THEN IF it.pos + 1 >= it.range.index
         THEN [some |-> FALSE, it |-> [it EXCEPT !.pos = @ + 1]]
         ELSE [some |-> TRUE,
               it |-> [it EXCEPT !.pos = @ + 1,
                                 !.cur = [it.range.sel[it.pos + 1] EXCEPT !.e = @ + 1]],
               b |-> it.range.sel[it.pos + 1].b, l |-> TRUE,
               o |-> it.range.sel[it.pos + 1].e]
    ELSE [some |-> TRUE, it |-> [it EXCEPT !.cur.e = @ + 1], b |-> it.cur.b,
          l |-> it.range.sel[it.pos].e = it.cur.e, o |-> it.cur.e]

----------------------------------------------------------------------------
(* BlockBuffer and BlockEntryIter: fs/block.rs.  m.w is the BlockEntryIter *)

(* BlockEntryIter::new; BlockBuffer::new leaves its blocks uninitialised *)
BlockEntryIterNew(count, junk) ==
    [buf |-> [i \in 0..3 |-> junk], status |-> 0, last |-> 0, prev |-> NoCache,
     count |-> count]

w_pos(w) == IF w.prev = NoCache THEN 0 ELSE w.prev
in_scope(w, pos) == ult(pos - w_pos(w), 4)

(* the slot BlockEntryIter::buffer hands to BlockBuffer::buffer *)
w_slot(w, pos) == Min((pos - w_pos(w)) % 256, 3)

(* BlockBuffer::buffer marks the slot dirty; rec is then stored at v *)
buffer_put(m, pos, v, rec) ==
    The({ [m EXCEPT !.w.status = BitOr(@, <<128, 64, 32, 16>>[k + 1], 8),
                    !.w.buf[k] = put(@, v, rec)]
          : k \in {w_slot(m.w, pos)} })

(* BlockBuffer::flush: every dirty slot k goes to start + k *)
RECURSIVE buffer_flush(_, _, _)
buffer_flush(m, start, k) ==
    IF k = 4 THEN [m EXCEPT !.w.status = @ % 16]
    ELSE IF BitAnd(m.w.status, <<128, 64, 32, 16>>[k + 1], 8) # 0
    THEN The({ buffer_flush(m1, start, k + 1)
               : m1 \in {[m EXCEPT !.dev = DevWrite(@, start + k, m.w.buf[k]),
                                   !.wr = @ \cup {start + k}]} })
    ELSE buffer_flush(m, start, k + 1)

(* BlockEntryIter::flush *)
w_flush(m) ==
    IF m.w.prev = NoCache THEN m
    ELSE buffer_flush([m EXCEPT !.w.prev = NoCache], m.w.prev, 0)

(* BlockBuffer::read of n = count.min(3) blocks; n = 0 runs into *)
(* unreachable_unchecked                                          *)
buffer_read(m, n, start) ==
    IF n = 0 THEN Fail(m, "Unreachable")
    ELSE [m EXCEPT !.w.buf = [k \in 0..3 |-> IF k < n THEN DevRead(m.dev, start + k) ELSE @[k]],
                   !.w.status = <<8, 12, 14>>[n],
                   !.rd = @ \cup {start + k : k \in 0..(n - 1)}]

(* BlockEntryIter::load *)
w_load(m, pos) ==
    IF m.w.last # 0 /\ ult(pos, m.w.last) THEN m
    ELSE The({ IF ~IsOk(m1) THEN m1
               ELSE [m1 EXCEPT !.w.last = @ + (m.w.count % 4),
                               !.w.count = @ - (m.w.count % 4),
                               !.w.prev = pos]
               : m1 \in {buffer_read(m, Min(m.w.count % 4, 3), pos)} })

(* BlockEntryIter::load_and_flush *)
load_and_flush(m, pos) ==
    The({ IF IsOk(m1) THEN w_load(m1, pos) ELSE m1 : m1 \in {w_flush(m)} })

----------------------------------------------------------------------------
(* Volume::find and Volume::create: fs/volume.rs *)

(* the predicate of create: the record is unused or deleted *)
is_free(b, x) == b[x] = 0 \/ b[x] = 229

(* Volume::find: the entries of block i; [r, done] *)
RECURSIVE find_entries(_, _, _, _, _, _)
find_entries(b, r, k, i, e, count) ==
    IF e >= SIZE_PER_BLOCK THEN [r |-> r, done |-> FALSE]
    ELSE IF ~is_free(b, e * DIR_SIZE) THEN find_entries(b, range_clear(r), k, i, e + 1, count)
    ELSE The({ IF r1.sum >= count THEN [r |-> finish(r1, k, i, e), done |-> TRUE]
               ELSE find_entries(b, r1, k, i, e + 1, count)
               : r1 \in {mark(r, k, i, e)} })

(* Volume::find: for i in p..=p + t *)
RECURSIVE find_blocks(_, _, _, _, _, _, _)
find_blocks(m, t, r, k, i, last, count) ==
    IF i > last THEN Ret(m, [r |-> r, done |-> FALSE])
    ELSE The({ The({ IF fe.done THEN Ret(m1, fe)
                     ELSE find_blocks(m1, t, fe.r, k, i + 1, last, count)
                     : fe \in {find_entries(Buf(m1, t), r, k, i, 0, count)} })
               : m1 \in {dev_read_single(m, t, i)} })

(* Volume::find: the 'outer loop over the clusters of the directory *)
RECURSIVE find_outer(_, _, _, _, _, _)
find_outer(m, t, r, k, n, count) ==
    The({ IF m1.ret.done THEN Ret(m1, m1.ret.r)
          ELSE The({ IF ~IsOk(m2) THEN m2
                     ELSE IF m2.ret # 0
                     THEN find_outer(m2, t, m1.ret.r, m2.ret, Blocks_blocks, count)
                     ELSE The({ IF ~IsOk(m3) THEN m3
                                ELSE find_outer(m3, t, m1.ret.r, m3.ret, Blocks_blocks, count)
                                : m3 \in {allocate(m2, t, k, TRUE)} })
                     : m2 \in {next(cache_clear(m1), t, k)} })
          : m1 \in {find_blocks(m, t, r, k, block_pos_at(k), block_pos_at(k) + n, count)} })

(* Volume::find with the predicate of create; m.ret is the Range *)
find(m, t, count, parent) ==
    find_outer(m, t, RangeNew, root(parent), entries(parent), count)

(* Volume::create: after the loop *)
create_end(m, e) ==
    The({ IF IsOk(m1) THEN Ret(m1, e) ELSE m1 : m1 \in {w_flush(m)} })

(* Volume::create: the short record, at t + 1 == s *)
create_short(m, t, e, b, v, alloc) ==
    The({ IF ~IsOk(m1) THEN m1
          ELSE The({ create_end(buffer_put(m1, b, v, write_entry(e1, vol.fat32)), e1)
                     : e1 \in {[e EXCEPT !.block = b, !.offset = v,
                                         !.cluster = IF alloc THEN m1.ret ELSE @]} })
          : m1 \in {IF alloc THEN allocate(m, t, 0, FALSE) ELSE m} })

(* Volume::create: for (_, i, l, o) in r *)
RECURSIVE create_loop(_, _, _, _, _, _, _)
create_loop(m, t, it, e, tc, s, alloc) ==
    The({ IF ~nx.some THEN create_end(m, e)
          ELSE The({ IF ~IsOk(m1) THEN m1
                     ELSE IF tc + 1 = s THEN create_short(m1, t, e, nx.b, nx.o * DIR_SIZE, alloc)
                     ELSE The({ create_loop(m2, t, nx.it, e, tc + 1, s, alloc)
                                : m2 \in {buffer_put(m1, nx.b, nx.o * DIR_SIZE,
                                                     write_lfn_entry(m1.lfn, e, tc, s - 1))} })
                     : m1 \in {IF nx.l /\ ~in_scope(m.w, nx.b) THEN load_and_flush(m, nx.b)
                               ELSE m} })
          : nx \in {iter_next(it)} })

(* Volume::create: after n.fill(name) *)
create_filled(m, t, name, attrs, parent, alloc, s) ==
    The({ IF ~IsOk(m1) THEN m1
          ELSE create_loop([m1 EXCEPT !.w = BlockEntryIterNew(m1.ret.index, m.junk)], t,
                           into_iter(m1.ret),
                           [DirEntryNew(attrs, s - 1) EXCEPT !.name = to_sfn(name, ShortEmpty)],
                           0, s, alloc)
          : m1 \in {find(m, t, s, parent)} })

(* Volume::create; m.ret is the DirEntry *)
create(m, t, name, attrs, parent, alloc) ==
    IF Len(name) > LFN_SIZE THEN Fail(m, "NameTooLong")
    ELSE The({ create_filled(m1, t, name, attrs, parent, alloc, lfn_size(m1.lfn))
               : m1 \in {[m EXCEPT !.lfn = fill_inner(@, name)]} })

----------------------------------------------------------------------------
(* Paths and opening: fs/volume.rs.  A path is a sequence of byte codes *)

is_sep(v) == v = 92 \/ v = 47

(* position(is_sep) and rposition(is_sep), counted from 0; -1 for None *)
position_sep(p) ==
    The({ IF d = {} THEN -1 ELSE Lowest(d) : d \in {{i \in 0..(Len(p) - 1) : is_sep(p[i + 1])}} })
rposition_sep(p) ==
    The({ IF d = {} THEN -1 ELSE CHOOSE i \in d : \A j \in d : j <= i
          : d \in {{i \in 0..(Len(p) - 1) : is_sep(p[i + 1])}} })

(* PathIter::next: drop one separator at the head of what is left *)
path_strip(v) == IF v # <<>> /\ is_sep(v[1]) THEN Tail(v) ELSE v

(* Iterator for PathIter: [some, e, c, rest] *)
RECURSIVE path_next(_)
path_next(p) ==
    IF p = <<>> THEN [some |-> FALSE]
    ELSE The({ IF i = 0 THEN path_next(path_strip(Tail(p)))
               ELSE IF i = 1 /\ p[1] = 46 THEN path_next(path_strip(SubSeq(p, 3, Len(p))))
               ELSE IF i > 0
               THEN [some |-> TRUE, e |-> SubSeq(p, 1, i),
                     c |-> path_strip(SubSeq(p, i + 1, Len(p))) = <<>>,
                     rest |-> path_strip(SubSeq(p, i + 1, Len(p)))]
               ELSE [some |-> TRUE, e |-> p, c |-> TRUE, rest |-> <<>>]
               : i \in {position_sep(p)} })

(* DirEntry::new_self and DirEntry::new_parent *)
new_self(parent, block) ==
    [DirEntryNew(16, 0) EXCEPT !.name = ShortSelf, !.block = block, !.cluster = parent.cluster]
new_parent(cluster, block) ==
    [DirEntryNew(16, 0) EXCEPT !.name = ShortParent, !.block = block, !.offset = 32,
                               !.cluster = cluster]

(* Volume::create_dir, after create *)
create_dir_fill(m, t, e, parent, i) ==
    The({ Ret(zero_fill(SetBuf(m1, t, ZeroBlock), t, i + 1, i + Blocks_blocks), e)
          : m1 \in {dev_write_single(
                        SetBuf(m, t, put(put(Buf(m, t), 0,
                                             write_entry(new_self(e, i), vol.fat32)),
                                         DIR_SIZE, write_entry(new_parent(parent, i), vol.fat32))),
                        t, i)} })

(* Volume::create_dir *)
create_dir(m, t, name, parent) ==
    The({ IF ~IsOk(m1) THEN m1
          ELSE create_dir_fill(m1, t, m1.ret, parent, block_pos(m1.ret.cluster))
          : m1 \in {create(m, t, name, 16, parent, TRUE)} })

OptNone == [some |-> FALSE]
OptSome(e) == [some |-> TRUE, e |-> e]

(* Volume::find_dir: the match on x.find for the component nx under i *)
RECURSIVE find_dir_loop(_, _, _, _, _, _)

(* the match without the test for a regular file on the last component *)
find_dir_step_last(m, t, nx, makedirs, p, i) ==
    The({ IF ~IsOk(m1) THEN m1
          ELSE IF m1.ret.some
          THEN IF nx.c THEN Ret(m1, m1.ret.e)
               ELSE IF is_file(m1.ret.e) THEN Fail(m1, "NotADirectory")
               ELSE find_dir_loop(m1, t, nx.rest, makedirs, OptSome(m1.ret.e), p)
          ELSE IF makedirs
          THEN The({ IF ~IsOk(m2) THEN m2
                     ELSE IF nx.c THEN m2
                     ELSE find_dir_loop(m2, t, nx.rest, makedirs, OptSome(m2.ret), p)
                     : m2 \in {create_dir(m1, t, nx.e, i)} })
          ELSE Fail(m1, "NotFound")
          : m1 \in {The({ IF IsOk(m0) THEN index_find(m0, nx.e) ELSE m0
                          : m0 \in {reset_cluster(m, i)} })} })

find_dir_step(m, t, nx, makedirs, p, i) ==
    The({ IF ~IsOk(m1) THEN m1
          ELSE IF m1.ret.some
          THEN IF is_file(m1.ret.e) THEN Fail(m1, "NotADirectory")
               ELSE IF nx.c THEN Ret(m1, m1.ret.e)
               ELSE find_dir_loop(m1, t, nx.rest, makedirs, OptSome(m1.ret.e), p)
          ELSE IF makedirs
          THEN The({ IF ~IsOk(m2) THEN m2
                     ELSE IF nx.c THEN m2
                     ELSE find_dir_loop(m2, t, nx.rest, makedirs, OptSome(m2.ret), p)
                     : m2 \in {create_dir(m1, t, nx.e, i)} })
          ELSE Fail(m1, "NotFound")
          : m1 \in {The({ IF IsOk(m0) THEN index_find(m0, nx.e) ELSE m0
                          : m0 \in {reset_cluster(m, i)} })} })

(* Volume::find_dir: for (e, c) in PathIter(path), with parents p and o *)
find_dir_loop(m, t, path, makedirs, p, o) ==
    The({ IF ~nx.some THEN (IF p.some THEN Ret(m, p.e) ELSE Fail(m, "NotFound"))
          ELSE IF nx.e = <<46, 46>> THEN find_dir_loop(m, t, nx.rest, makedirs, o, OptNone)
          ELSE find_dir_step(m, t, nx, makedirs, p, IF p.some THEN p.e.cluster ELSE 0)
          : nx \in {path_next(path)} })

(* Volume::find_dir; m.ret is the DirEntry of the Directory *)
find_dir(m, t, path, makedirs) ==
    IF path = <<>> \/ (Len(path) = 1 /\ is_sep(path[1])) THEN Ret(m, new_root)
    ELSE find_dir_loop(m, t, path, makedirs, OptNone, OptNone)

(* Mode::is_create and Mode::is_mode_valid *)
is_create(m) ==
    BitAnd(m, CREATE, 8) # 0 /\ (BitAnd(m, WRITE, 8) # 0 \/ BitAnd(m, APPEND, 8) # 0)
is_mode_valid(m) ==
    ~((m \div 16) > 0 \/ BitAnd(m, BitOr(TRUNCATE, APPEND, 8), 8) = 18 \/ m = CREATE)

(* DirEntry::sync of the entry of the File m.f *)
sync(m, t) ==
    The({ IF m.f.offset > SIZE THEN Fail(m1, "BadData")
          ELSE dev_write_single(SetBuf(m1, t, put(Buf(m1, t), m.f.offset,
                                                  write_entry(m.f, vol.fat32))),
                                t, m.f.block)
          : m1 \in {dev_read_single(m, t, m.f.block)} })

(* the File a call hands back: m.f *)
Opened(m, e, mode) == Ret([m EXCEPT !.f = FileNew(e, mode)], 0)

(* Volume::open_inner_file *)
open_inner_file(m, t, name, mode) ==
    The({ IF ~IsOk(m1) THEN m1
          ELSE IF m1.ret.some
          THEN IF is_directory(m1.ret.e) THEN Fail(m1, "NotAFile")
               ELSE Opened(m1, m1.ret.e, mode)
          ELSE IF is_create(mode)
          THEN The({ IF IsOk(m2) THEN Opened(m2, m2.ret, mode) ELSE m2
                     : m2 \in {create(m1, t, name, 0, 0, FALSE)} })
          ELSE Fail(m1, "NotFound")
          : m1 \in {The({ IF IsOk(m0) THEN index_find(m0, name) ELSE m0
                          : m0 \in {reset_cluster(m, 0)} })} })

(* Volume::create_file: Some(e), a file *)
create_file_found(m, t, e, mode) ==
    IF BitAnd(mode, APPEND, 8) # 0
    THEN The({ [m1 EXCEPT !.f.pos = m1.f.size] : m1 \in {Opened(m, e, mode)} })
    ELSE IF BitAnd(mode, TRUNCATE, 8) # 0
    THEN The({ IF ~IsOk(m1) THEN m1
               ELSE The({ IF IsOk(m2) THEN Ret(m2, 0) ELSE m2
                          : m2 \in {sync([m1 EXCEPT !.f.size = 0], t)} })
               : m1 \in {The({ truncate(m0, t, index(m0.f)) : m0 \in {Opened(m, e, mode)} })} })
    ELSE Opened(m, e, mode)

(* Volume::create_file; p is the cluster of the parent *)
create_file(m, t, name, p, mode) ==
    IF ~is_mode_valid(mode) THEN Fail(m, "InvalidOptions")
    ELSE The({ IF ~IsOk(m1) THEN m1
               ELSE IF m1.ret.some
               THEN IF is_directory(m1.ret.e) THEN Fail(m1, "NotAFile")
                    ELSE create_file_found(m1, t, m1.ret.e, mode)
               ELSE IF is_create(mode)
               THEN The({ IF IsOk(m2) THEN Opened(m2, m2.ret, mode) ELSE m2
                          : m2 \in {create(m1, t, name, 0, p, FALSE)} })
               ELSE Fail(m1, "NotFound")
               : m1 \in {The({ IF IsOk(m0) THEN index_find(m0, name) ELSE m0
                               : m0 \in {reset_cluster(m, p)} })} })

(* Volume::open_inner, with the scratch block Cache::block_a *)
open_inner(m, path, mode) ==
    IF ~is_mode_valid(mode) THEN Fail(m, "InvalidOptions")
    ELSE IF path = <<>> THEN Fail(m, "NotFound")
    ELSE The({ IF i >= 0 /\ i + 1 >= Len(path) THEN Fail(mx, "NotAFile")
               ELSE IF i < 0 THEN open_inner_file(mx, "a", path, mode)
               ELSE The({ IF ~IsOk(m1) THEN m1
                          ELSE create_file(m1, "a", SubSeq(path, i + 2, Len(path)),
                                           m1.ret.cluster, mode)
                          : m1 \in {find_dir(mx, "a", SubSeq(path, 1, i),
                                             BitAnd(mode, CREATE, 8) # 0)} })
               : i \in {rposition_sep(path)}, mx \in {[m EXCEPT !.x = DirectoryIndexNew]} })

----------------------------------------------------------------------------
(* Reading the FAT as it is on the device *)

fat_value(d, idx) ==
    LET o == offset(idx)
        blk == DevRead(d, o.n)
    IN  IF vol.fat32 THEN read_u32(blk, o.i) ELSE read_u16(blk, o.i)

fat_next(d, idx) == LET o == offset(idx) IN next_decode(DevRead(d, o.n), o.i)

(* the clusters visited by cluster-next from c, at most n + 1 of them, and *)
(* how the walk ended: "none" (no next), an error, or "more"               *)
RECURSIVE walk(_, _, _)
walk(d, c, n) ==
    The({ IF r.err # "" THEN [seq |-> <<c>>, end |-> r.err]
          ELSE IF r.ret = 0 THEN [seq |-> <<c>>, end |-> "none"]
          ELSE IF n = 0 THEN [seq |-> <<c>>, end |-> "more"]
          ELSE The({ [seq |-> <<c>> \o w.seq, end |-> w.end] : w \in {walk(d, r.ret, n - 1)} })
          : r \in {fat_next(d, c)} })

Range(s) == {s[i] : i \in 1..Len(s)}

----------------------------------------------------------------------------
(* Volumes and FAT images the model starts from *)

BootSectors ==
    { [root_entries |-> 512, total |-> 4200, reserved |-> 1, fats |-> 32,
       per_cluster |-> 1, info |-> 0, root |-> 0],
      [root_entries |-> 0, total |-> 66658, reserved |-> 32, fats |-> 1026,
       per_cluster |-> 1, info |-> 1, root |-> 2] }

Volumes == {VolumeNew(b, 2048, b.total) : b \in BootSectors}

(* the last FAT entry of the first FAT sector *)
LastSlot(v) == IF v.fat32 THEN (SIZE \div 4) - 1 ELSE (SIZE \div 2) - 1
EofMark(v) == IF v.fat32 THEN 268435455 ELSE 65535

(* clusters 2..n-1 hold one-cluster files, the rest is free; with chained, *)
(* the last three entries of the sector are one chain                      *)
FatImage(v, n, chained) ==
    LET L == LastSlot(v)
        w == IF v.fat32 THEN 4 ELSE 2
        val(c) == IF c = 0 THEN EofMark(v) - 7
                  ELSE IF c = 1 THEN EofMark(v)
                  ELSE IF chained /\ c \in {L - 2, L - 1} THEN c + 1
                  ELSE IF chained /\ c = L THEN EofMark(v)
                  ELSE IF c < n THEN EofMark(v)
                  ELSE 0
    IN  [i \in 0..(SIZE - 1) |-> (val(i \div w) \div Pow256(i % w)) % 256]

(* clusters 2 and 3 are one chain that starts at the first data cluster, *)
(* the rest is free                                                      *)
FatHeadImage(v) ==
    [i \in 0..(SIZE - 1) |->
        IF v.fat32 /\ i \div 4 = 2 THEN (IF i % 4 = 0 THEN 3 ELSE 0)
        ELSE IF ~v.fat32 /\ i \div 2 = 2 THEN (IF i % 2 = 0 THEN 3 ELSE 0)
        ELSE FatImage(v, 4, FALSE)[i]]

FatImages(v) ==
    { FatImage(v, 3, FALSE), FatImage(v, LastSlot(v) - 1, FALSE),
      FatImage(v, LastSlot(v) - 2, TRUE), FatHeadImage(v) }

(* what the last operation returned and touched *)
Result(op, m, arg) ==
    [op |-> op, ok |-> IsOk(m), err |-> m.err, ret |-> IF IsOk(m) THEN m.ret ELSE 0,
     arg |-> arg, pos |-> 0, rd |-> m.rd, wr |-> m.wr, al |-> m.al]

NoResult(op) ==
    [op |-> op, ok |-> TRUE, err |-> "", ret |-> 0, arg |-> 0, pos |-> 0, rd |-> {},
     wr |-> {}, al |-> <<>>]

(* Block::new leaves the scratch blocks uninitialised: any content *)
Scratch == {ZeroBlock, [i \in 0..(SIZE - 1) |-> 165]}

(* The cache tokens of fs.rs.  spin[s] is the Spinlock of slot s          *)
(* (Spinlock30 for lfn, Spinlock29 for block_a, Spinlock28 for block_b),  *)
(* calls[c] is the call that core c runs: its name, the token steps of    *)
(* its path, its position in them and the guards the core holds.          *)
Slots == {"lfn", "block_a", "block_b"}

Cores == {0, 1}

Idle == [name |-> "", path |-> <<>>, pc |-> 1, held |-> <<>>]

InitScratch ==
    /\ block_a \in Scratch
    /\ block_b = ZeroBlock
    /\ lfn = [i \in 0..(LFN_SIZE - 1) |-> 0]
    /\ file = [open |-> FALSE]
    /\ hist = [fresh |-> FALSE, seeked |-> FALSE, total |-> 0]
    /\ chain = <<>>
    /\ res = NoResult("init")
    /\ steps = 0
    /\ spin = [s \in Slots |-> FALSE]
    /\ calls = [c \in Cores |-> Idle]

InitCommon ==
    /\ vol \in Volumes
    /\ InitScratch

InitFat ==
    /\ InitCommon
    /\ \E img \in FatImages(vol) : dev = (vol.lba + vol.fat :> img)
    /\ info \in IF vol.fat32 THEN {[next |-> 0, free |-> 0], [next |-> 0, free |-> 1000]}
                ELSE {[next |-> 0, free |-> 0]}

Machine == MState(dev, block_a, block_b, lfn, info, file)

Commit(m) ==
    /\ dev' = m.dev
    /\ block_a' = m.a
    /\ block_b' = m.b
    /\ lfn' = m.lfn
    /\ info' = m.info

(* allocate one more cluster for the current chain *)
FatAllocate ==
    /\ steps < MaxSteps
    /\ \E zero \in BOOLEAN :
         \E prev \in {IF chain = <<>> THEN 0 ELSE chain[Len(chain)]} :
         \E m \in {allocate(Machine, "a", prev, zero)} :
             /\ Commit(m)
             /\ chain' = IF IsOk(m) THEN Append(chain, m.ret) ELSE chain
             /\ res' = Result("allocate", m, prev)
    /\ steps' = steps + 1
    /\ UNCHANGED <<vol, spin, calls, file, hist>>

(* truncate at a cluster of the current chain or of the image *)
TruncateTargets == Range(chain) \cup {1, 2, LastSlot(vol) - 2, LastSlot(vol) - 1}

FatTruncate ==
    /\ steps < MaxSteps
    /\ \E idx \in TruncateTargets :
         \E m \in {truncate(Machine, "a", idx)} :
             /\ Commit(m)
             /\ res' = Result("truncate", m, idx)
    /\ chain' = <<>>
    /\ steps' = steps + 1
    /\ UNCHANGED <<vol, spin, calls, file, hist>>

(* the next allocation starts a new chain *)
FatNewChain ==
    /\ steps < MaxSteps
    /\ chain # <<>>
    /\ chain' = <<>>
    /\ res' = NoResult("newchain")
    /\ steps' = steps + 1
    /\ UNCHANGED <<vol, spin, calls, dev, block_a, block_b, lfn, info, file, hist>>

NextFat == FatAllocate \/ FatTruncate \/ FatNewChain

SpecFat == InitFat /\ [][NextFat]_vars

----------------------------------------------------------------------------
(* Files: an open handle, written and repositioned (SpecFile) *)

(* the bytes a write is given, and their counts *)
Payload(n) == [k \in 1..n |-> 170]
WriteLens == {10, 512, 600, 1100}
SeekTargets == {0, 100, 512}

(* clusters 2..5 hold one-cluster files; the existing file is cluster 5 *)
FileCluster == 5
FileData == [i \in 0..(SIZE - 1) |-> 85]

(* the directory entries File::new is given: one just created, with no *)
(* cluster, and one of an existing file of one full sector              *)
FileEntries ==
    { [lfn |-> 0, name |-> [i \in 0..10 |-> 32], cluster |-> 0, size |-> 0, attrs |-> 0,
       block |-> vol.lba + vol.root, offset |-> 0],
      [lfn |-> 0, name |-> [i \in 0..10 |-> 32], cluster |-> FileCluster, size |-> SIZE,
       attrs |-> 32, block |-> vol.lba + vol.root, offset |-> 32] }

InitFile ==
    /\ vol \in Volumes
    /\ block_a \in Scratch
    /\ block_b = ZeroBlock
    /\ lfn = [i \in 0..(LFN_SIZE - 1) |-> 0]
    /\ info = [next |-> 0, free |-> 0]
    /\ dev = ((vol.lba + vol.fat) :> FatImage(vol, FileCluster + 1, FALSE))
             @@ (block_pos_at(FileCluster) :> FileData)
    /\ \E e \in FileEntries :
         /\ file = FileNew(e, WRITE)
         /\ hist = [fresh |-> e.cluster = 0, seeked |-> FALSE, total |-> 0]
    /\ chain = <<>>
    /\ res = NoResult("init")
    /\ steps = 0
    /\ spin = [s \in Slots |-> FALSE]
    /\ calls = [c \in Cores |-> Idle]

FileCommit(m) ==
    /\ Commit(m)
    /\ file' = m.f
    /\ chain' = chain \o m.al

FileWrite ==
    /\ steps < MaxSteps
    /\ \E n \in WriteLens :
         \E m \in {write(Machine, Payload(n))} :
             /\ FileCommit(m)
             /\ res' = [Result("write", m, n) EXCEPT !.pos = file.pos]
             /\ hist' = [hist EXCEPT !.total = @ + n]
    /\ steps' = steps + 1
    /\ UNCHANGED <<vol, spin, calls>>

FileSeek ==
    /\ steps < MaxSteps
    /\ \E v \in SeekTargets :
         \E m \in {seek_start(Machine, v)} :
             /\ FileCommit(m)
             /\ res' = [Result("seek", m, v) EXCEPT !.pos = file.pos]
             /\ hist' = [hist EXCEPT !.seeked = TRUE]
    /\ steps' = steps + 1
    /\ UNCHANGED <<vol, spin, calls>>

NextFile == FileWrite \/ FileSeek

SpecFile == InitFile /\ [][NextFile]_vars

----------------------------------------------------------------------------
(* Directories: files created in the root and looked up again (SpecDir) *)

MaxDirOps == 3

(* "A.TXT", "LONGFILENAME.TXT", "ABCDEFGHIJKLMNOPQRSTUV.TXT", "NOTES.MD" *)
NameShort == <<65, 46, 84, 88, 84>>
NameLong == <<76, 79, 78, 71, 70, 73, 76, 69, 78, 65, 77, 69, 46, 84, 88, 84>>
NameLonger ==
    <<65, 66, 67, 68, 69, 70, 71, 72, 73, 74, 75, 76, 77, 78, 79, 80, 81, 82, 83, 84, 85, 86,
      46, 84, 88, 84>>
NameOther == <<78, 79, 84, 69, 83, 46, 77, 68>>
DirNames == {NameShort, NameLong, NameLonger, NameOther}

(* the short record of an empty file "U<k>" that was in the directory before *)
UsedEntry(k) ==
    [i \in 0..(DIR_SIZE - 1) |->
        IF i = 0 THEN 85 ELSE IF i = 1 THEN 65 + k ELSE IF i < SFN_SIZE THEN 32
        ELSE IF i = 11 THEN 32 ELSE 0]

(* a directory sector whose first n slots are in use *)
DirBlock(n) ==
    [i \in 0..(SIZE - 1) |-> IF i \div DIR_SIZE < n THEN UsedEntry(i \div DIR_SIZE)[i % DIR_SIZE]
                             ELSE 0]

UsedSlots == {0, 1, SIZE_PER_BLOCK - 1}

RootBlock == block_pos_at(root(0))

InitDir ==
    /\ vol \in Volumes
    /\ block_a \in Scratch
    /\ block_b = ZeroBlock
    /\ lfn = LongEmpty
    /\ info = [next |-> 0, free |-> 0]
    /\ \E n \in UsedSlots :
         dev = ((vol.lba + vol.fat) :> FatImage(vol, 3, FALSE)) @@ (RootBlock :> DirBlock(n))
    /\ file = [open |-> FALSE]
    /\ hist = [created |-> {}]
    /\ chain = <<>>
    /\ res = NoResult("init")
    /\ steps = 0
    /\ spin = [s \in Slots |-> FALSE]
    /\ calls = [c \in Cores |-> Idle]

(* what a call on a directory returned and touched *)
DirResult(op, m, arg) ==
    [op |-> op, ok |-> IsOk(m), err |-> m.err, ret |-> 0, arg |-> arg, pos |-> 0,
     rd |-> m.rd, wr |-> m.wr, al |-> m.al,
     found |-> IF op = "find" /\ IsOk(m) THEN m.ret.some ELSE FALSE,
     name |-> IF op = "find" /\ IsOk(m) /\ m.ret.some THEN m.ret.name ELSE <<>>]

(* Volume::file_create: open_inner with WRITE, CREATE and TRUNCATE *)
DirCreate ==
    /\ steps < MaxDirOps
    /\ \E name \in DirNames, junk \in Scratch :
         \E m \in {open_inner([Machine EXCEPT !.junk = junk], name,
                              BitOr(BitOr(WRITE, CREATE, 8), TRUNCATE, 8))} :
             /\ Commit(m)
             /\ file' = IF IsOk(m) THEN m.f ELSE [open |-> FALSE]
             /\ chain' = chain \o m.al
             /\ res' = DirResult("create", m, name)
             /\ hist' = IF IsOk(m) THEN [hist EXCEPT !.created = @ \cup {name}] ELSE hist
    /\ steps' = steps + 1
    /\ UNCHANGED <<vol, spin, calls>>

(* a fresh scan of the root: DirectoryIndex::reset_cluster, then find *)
DirFind ==
    /\ steps < MaxDirOps
    /\ \E name \in DirNames :
         \E m \in {The({ IF IsOk(m0) THEN index_find(m0, name) ELSE m0
                         : m0 \in {reset_cluster([Machine EXCEPT !.x = DirectoryIndexNew], 0)} })} :
             /\ Commit(m)
             /\ res' = DirResult("find", m, name)
    /\ steps' = steps + 1
    /\ UNCHANGED <<vol, spin, calls, file, chain, hist>>

NextDir == DirCreate \/ DirFind

SpecDir == InitDir /\ [][NextDir]_vars

----------------------------------------------------------------------------
(* Opening files by path, in the root and in a directory (SpecOpen), and *)
(* under every mode byte (SpecMode)                                      *)

MaxOpens == 2
MaxModeOpens == 1

(* "DATAFILE.BIN", "EMPTYFIL.BIN", "SUBDIR01" and '/' *)
NameData == <<68, 65, 84, 65, 70, 73, 76, 69, 46, 66, 73, 78>>
NameEmpty == <<69, 77, 80, 84, 89, 70, 73, 76, 46, 66, 73, 78>>
NameSub == <<83, 85, 66, 68, 73, 82, 48, 49>>
Slash == <<47>>

(* the clusters of the volume: the directory SUBDIR01 and the three-cluster *)
(* chains of the two files named DATAFILE.BIN                               *)
SubCluster == 3
RootData == 4
SubData == 7

(* a short record as a FAT driver stores it *)
ShortRecord(name, attrs, cluster, size) ==
    [i \in 0..(DIR_SIZE - 1) |->
        IF i < SFN_SIZE THEN name[i]
        ELSE IF i = 11 THEN attrs
        ELSE IF i = 26 THEN cluster % 256
        ELSE IF i = 27 THEN (cluster \div 256) % 256
        ELSE IF i >= 28 THEN (size \div Pow256(i - 28)) % 256
        ELSE 0]

RecordsBlock(recs) ==
    [i \in 0..(SIZE - 1) |-> IF i \div DIR_SIZE < Len(recs) THEN recs[(i \div DIR_SIZE) + 1][i % DIR_SIZE]
                             ELSE 0]

OpenRoot ==
    RecordsBlock(<<ShortRecord(to_sfn(NameData, ShortEmpty), 32, RootData, 3 * Blocks_bytes),
                   ShortRecord(to_sfn(NameSub, ShortEmpty), 16, SubCluster, 0),
                   ShortRecord(to_sfn(NameEmpty, ShortEmpty), 32, 0, 0)>>)

OpenSub ==
    RecordsBlock(<<ShortRecord(ShortSelf, 16, SubCluster, 0),
                   ShortRecord(ShortParent, 16, 0, 0),
                   ShortRecord(to_sfn(NameData, ShortEmpty), 32, SubData, 3 * Blocks_bytes),
                   ShortRecord(to_sfn(NameEmpty, ShortEmpty), 32, 0, 0)>>)

(* the FAT: root and SUBDIR01 end their chains; each file is a chain of *)
(* three clusters in a row                                             *)
OpenFat ==
    [i \in 0..(SIZE - 1) |->
        The({ The({ (val \div Pow256(i % free_width)) % 256
                    : val \in {IF c < RootData THEN EofMark(vol)
                               ELSE IF c \in {RootData, RootData + 1, SubData, SubData + 1}
                               THEN c + 1
                               ELSE IF c \in {RootData + 2, SubData + 2} THEN EofMark(vol)
                               ELSE 0} })
              : c \in {i \div free_width} })]

(* where the record of each file lies: the root block and the block of SUBDIR01 *)
OpenPaths ==
    { [path |-> NameData, block |-> RootBlock, offset |-> 0],
      [path |-> NameEmpty, block |-> RootBlock, offset |-> 2 * DIR_SIZE],
      [path |-> NameSub \o Slash \o NameData, block |-> block_pos_at(SubCluster),
       offset |-> 2 * DIR_SIZE],
      [path |-> NameSub \o Slash \o NameEmpty, block |-> block_pos_at(SubCluster),
       offset |-> 3 * DIR_SIZE] }

OpenModes ==
    { WRITE, BitOr(WRITE, TRUNCATE, 8), BitOr(WRITE, APPEND, 8),
      BitOr(BitOr(WRITE, CREATE, 8), TRUNCATE, 8) }

InitOpen ==
    /\ vol \in Volumes
    /\ block_a \in Scratch
    /\ block_b = ZeroBlock
    /\ lfn = LongEmpty
    /\ info \in {[next |-> 0, free |-> 0], [next |-> 10, free |-> 100]}
    /\ dev = ((vol.lba + vol.fat) :> OpenFat) @@ (RootBlock :> OpenRoot)
             @@ (block_pos_at(SubCluster) :> OpenSub)
    /\ file = [open |-> FALSE]
    /\ hist = [opened |-> 0]
    /\ chain = <<>>
    /\ res = NoResult("init")
    /\ steps = 0
    /\ spin = [s \in Slots |-> FALSE]
    /\ calls = [c \in Cores |-> Idle]

(* what open_inner returned and touched; at is the record of the file *)
OpenResult(m, at, mode) ==
    [op |-> "open", ok |-> IsOk(m), err |-> m.err, ret |-> 0, arg |-> mode, pos |-> 0,
     rd |-> m.rd, wr |-> m.wr, al |-> m.al, block |-> at.block, offset |-> at.offset,
     bare |-> rposition_sep(at.path) < 0]

OpenWith(at, mode) ==
    \E junk \in Scratch :
        \E m \in {open_inner([Machine EXCEPT !.junk = junk], at.path, mode)} :
            /\ Commit(m)
            /\ file' = IF IsOk(m) THEN m.f ELSE [open |-> FALSE]
            /\ chain' = chain \o m.al
            /\ res' = OpenResult(m, at, mode)
            /\ hist' = [hist EXCEPT !.opened = @ + 1]
            /\ steps' = steps + 1
            /\ UNCHANGED <<vol, spin, calls>>

(* Volume::file_open and its kin: open_inner on the path of a file *)
Open ==
    /\ steps < MaxOpens
    /\ \E at \in OpenPaths, mode \in OpenModes : OpenWith(at, mode)

NextOpen == Open

SpecOpen == InitOpen /\ [][NextOpen]_vars

(* open_inner under any mode byte *)
ModeOpen ==
    /\ steps < MaxModeOpens
    /\ \E at \in OpenPaths, mode \in 0..255 : OpenWith(at, mode)

NextMode == ModeOpen

SpecMode == InitOpen /\ [][NextMode]_vars

----------------------------------------------------------------------------
(* FAT16 volumes whose clusters are nearly all in use (SpecFull): two     *)
(* copies of the FAT of 17 sectors each.  On the first volume the 4350    *)
(* clusters fill the 17 sectors to the last entry; on the second the FAT  *)
(* entries after the 4300 clusters are 0, as a formatter leaves them.     *)
FullBoots ==
    { [root_entries |-> 512, total |-> 4418, reserved |-> 1, fats |-> 34,
       per_cluster |-> 1, info |-> 0, root |-> 0],
      [root_entries |-> 512, total |-> 4368, reserved |-> 1, fats |-> 34,
       per_cluster |-> 1, info |-> 0, root |-> 0] }

FullVolumes == {VolumeNew(b, 2048, b.total) : b \in FullBoots}

(* the clusters of the volume: 2 .. total_clusters + 1 *)
ValidClusters(v) == 2..(v.count + 1)

(* sector k of a FAT in which the clusters of unused are free and every   *)
(* other cluster is a file of one cluster                                 *)
FullFat(v, unused, k) ==
    [i \in 0..(SIZE - 1) |->
        The({ IF c = 0 THEN (IF i % 2 = 0 THEN 248 ELSE 255)
              ELSE IF c \in unused \/ c \notin ValidClusters(v) THEN (IF c = 1 THEN 255 ELSE 0)
              ELSE 255
              : c \in {k * (SIZE \div 2) + (i \div 2)} })]

(* the sectors of one copy of the FAT *)
FatLen(v) == (v.root - v.fat) \div 2

(* the first copy of the FAT and the first sector of the second copy *)
FullDev(v, unused) ==
    [n \in (v.lba + v.fat)..(v.lba + v.fat + FatLen(v)) |->
        FullFat(v, unused, (n - (v.lba + v.fat)) % FatLen(v))]

(* the last cluster of a file that is open for writing *)
FullTail == 4000

InitFull ==
    /\ vol \in FullVolumes
    /\ InitScratch
    /\ \E unused \in {{}, {10}, {300}, {300, 301}} : dev = FullDev(vol, unused)
    /\ info = [next |-> 0, free |-> 0]

(* the file whose last cluster is FullTail is written to *)
FullAppend ==
    /\ steps = 0
    /\ chain' = <<FullTail>>
    /\ res' = NoResult("newchain")
    /\ steps' = steps + 1
    /\ UNCHANGED <<vol, spin, calls, dev, block_a, block_b, lfn, info, file, hist>>

NextFull == FatAllocate \/ FatTruncate \/ FatNewChain \/ FullAppend

SpecFull == InitFull /\ [][NextFull]_vars

----------------------------------------------------------------------------
(* The cache tokens (SpecCache): Cache of fs.rs and the call paths that   *)
(* take its guards.  A step of a path is a claiming acquire, the acquire  *)
(* without a claim, or the drop of a guard.                               *)

Cache_lfn == [op |-> "claim", slot |-> "lfn"]

Cache_block_a == [op |-> "claim", slot |-> "block_a"]

Cache_block_b == [op |-> "claim", slot |-> "block_b"]

block_a_nolock == [op |-> "nolock", slot |-> "block_a"]

drop(s) == [op |-> "drop", slot |-> s]

(* DirectoryIndex::new takes buf: Cache::block_b() and val:               *)
(* DirEntryFull::new(), which takes lfn: Cache::lfn(); the index drops    *)
(* its fields in that order                                               *)
index_new == <<Cache_block_b, Cache_lfn>>

index_drop == <<drop("block_b"), drop("lfn")>>

(* Volume::create: let mut n = Cache::lfn(), dropped at its return *)
create_tokens == <<Cache_lfn, drop("lfn")>>

(* open_inner, dir_create, file_entry and dir_entry: x =                  *)
(* DirectoryIndex::new and the block_a guard, then find_dir, create_file  *)
(* or create_dir, which reach Volume::create when the entry is missing    *)
(* and creation is asked for                                              *)
path_lookup == index_new \o <<Cache_block_a, drop("block_a")>> \o index_drop

path_create ==
    index_new \o <<Cache_block_a>> \o create_tokens \o <<drop("block_a")>> \o index_drop

(* Directory::delete: the block_a guard, then delete, whose loop runs     *)
(* over vol.list_entry (a DirectoryIndex) and calls itself on a child     *)
(* directory inside that loop                                             *)
path_delete(depth) ==
    <<Cache_block_a>>
    \o (IF depth = 0 THEN index_new \o index_drop
        ELSE index_new \o index_new \o index_drop \o index_drop)
    \o <<drop("block_a")>>

(* File<Safe> read, write, flush and File<Unsafe> read, write, flush:     *)
(* let mut d = S::cache()                                                 *)
path_file(safe) ==
    <<IF safe THEN Cache_block_a ELSE block_a_nolock, drop("block_a")>>

(* the calls of the public interface and their token steps *)
Paths ==
    { [name |-> "open", path |-> path_lookup],
      [name |-> "file_create", path |-> path_create],
      [name |-> "dir_create", path |-> path_create],
      [name |-> "dir_entry", path |-> path_create],
      [name |-> "delete", path |-> path_delete(0)],
      [name |-> "delete_tree", path |-> path_delete(1)],
      [name |-> "write", path |-> path_file(TRUE)],
      [name |-> "write_unsafe", path |-> path_file(FALSE)],
      [name |-> "into_reader", path |-> <<Cache_block_a>>],
      [name |-> "into_file", path |-> <<drop("block_a")>>] }

(* a core keeps at most this many Readers open *)
MaxReaders == 1

InitCache ==
    /\ InitCommon
    /\ vol.fat32
    /\ block_a = ZeroBlock
    /\ dev = ((vol.lba + vol.fat) :> ZeroBlock)
    /\ info = [next |-> 0, free |-> 0]

Returned(c) == calls[c].pc > Len(calls[c].path)

At(c) == calls[c].path[calls[c].pc]

Step(c, held) == calls' = [calls EXCEPT ![c].pc = @ + 1, ![c].held = held]

(* the guards of slot s that core c holds, by position *)
Guards(c, s) == {i \in DOMAIN calls[c].held : calls[c].held[i].slot = s}

Readers(c) == {i \in Guards(c, "block_a") : ~calls[c].held[i].own}

(* File::into_unsafe asks that no two cores read or write files at the    *)
(* same time: while a core runs a call of a File<Unsafe> the other core   *)
(* runs nothing, and such a call starts only when the other core runs     *)
(* nothing                                                                *)
Unsynced(c) == ~Returned(c) /\ calls[c].name = "write_unsafe"

Alone(c) == \A d \in Cores \ {c} : ~Unsynced(d)

(* a core that returned starts a call; the guards it kept (a Reader's     *)
(* buf) are no longer those of the running call                           *)
CacheCall(c) ==
    /\ Returned(c)
    /\ Alone(c)
    /\ \E p \in Paths :
        /\ p.name = "write_unsafe" => \A d \in Cores \ {c} : Returned(d)
        /\ p.name = "into_reader" => Cardinality(Readers(c)) < MaxReaders
        /\ p.name = "into_file" => Readers(c) # {}
        /\ calls' = [calls EXCEPT ![c] =
                       [name |-> p.name, path |-> p.path, pc |-> 1,
                        held |-> [i \in DOMAIN calls[c].held |->
                                    [calls[c].held[i] EXCEPT !.own = FALSE]]]]
    /\ UNCHANGED <<vol, dev, block_a, block_b, lfn, info, file, chain, hist, res, steps, spin>>

(* Cache::lfn, Cache::block_a, Cache::block_b: Spinlock::claim() returns  *)
(* once the lock is taken, and the claim is forgotten into the guard      *)
CacheClaim(c) ==
    /\ ~Returned(c)
    /\ Alone(c)
    /\ At(c).op = "claim"
    /\ ~spin[At(c).slot]
    /\ spin' = [spin EXCEPT ![At(c).slot] = TRUE]
    /\ Step(c, Append(calls[c].held, [slot |-> At(c).slot, locked |-> TRUE, own |-> TRUE]))
    /\ UNCHANGED <<vol, dev, block_a, block_b, lfn, info, file, chain, hist, res, steps>>

(* Cache::block_a_nolock: a BlockPtr to block_a without a claim *)
CacheNolock(c) ==
    /\ ~Returned(c)
    /\ Alone(c)
    /\ At(c).op = "nolock"
    /\ Step(c, Append(calls[c].held, [slot |-> At(c).slot, locked |-> FALSE, own |-> TRUE]))
    /\ UNCHANGED <<vol, dev, block_a, block_b, lfn, info, file, chain, hist, res, steps, spin>>

(* Drop for BlockPtr and LongNamePtr: the lock of the buffer the guard    *)
(* points to is freed, however the guard was obtained                     *)
CacheDrop(c) ==
    /\ ~Returned(c)
    /\ Alone(c)
    /\ At(c).op = "drop"
    /\ Guards(c, At(c).slot) # {}
    /\ \E k \in {CHOOSE i \in Guards(c, At(c).slot) :
                   \A j \in Guards(c, At(c).slot) : j <= i} :
        /\ spin' = [spin EXCEPT ![calls[c].held[k].slot] = FALSE]
        /\ Step(c, SubSeq(calls[c].held, 1, k - 1)
                   \o SubSeq(calls[c].held, k + 1, Len(calls[c].held)))
    /\ UNCHANGED <<vol, dev, block_a, block_b, lfn, info, file, chain, hist, res, steps>>

NextCache ==
    \E c \in Cores : CacheCall(c) \/ CacheClaim(c) \/ CacheNolock(c) \/ CacheDrop(c)

SpecCache == InitCache /\ [][NextCache]_vars

(* each core keeps running: a spinning claim is taken again and again *)
SpecCacheFair ==
    SpecCache /\ \A c \in Cores :
        SF_vars(CacheCall(c) \/ CacheClaim(c) \/ CacheNolock(c) \/ CacheDrop(c))

----------------------------------------------------------------------------
(* Deleting files and directories (SpecDelete): fs/volume/file.rs *)

(* DirEntry::is_root_or_parent: no cluster, the EMPTY cluster, or one of the *)
(* names "." and ".."; ShortName derefs to its 11 bytes, so is_empty() of   *)
(* the name is false                                                        *)
is_root_or_parent(e) ==
    e.cluster = 0 \/ e.cluster = EMPTY \/ e.name = ShortSelf \/ e.name = ShortParent

(* the bytes from..(to - 1) of the block set to 0 *)
wipe(b, from, to) == [k \in 0..(SIZE - 1) |-> IF k >= from /\ k < to THEN 0 ELSE b[k]]

(* DirEntry::delete *)
entry_delete(m, t, e) ==
    The({ IF ~IsOk(m1) THEN m1
          ELSE IF e.offset > SIZE THEN Fail(m1, "BadData")
          ELSE The({ IF e.lfn = 0 \/ e.lfn * DIR_SIZE > e.offset
                     THEN dev_write_single(m2, t, e.block)
                     ELSE The({ IF e.cluster # 0 THEN truncate(m3, t, e.cluster) ELSE m3
                                : m3 \in {dev_write_single(
                                             SetBuf(m2, t, wipe(Buf(m2, t),
                                                                e.offset - (e.lfn * DIR_SIZE),
                                                                e.offset)),
                                             t, e.block)} })
                     : m2 \in {SetBuf(m1, t, write_u8(Buf(m1, t), e.offset, 229))} })
          : m1 \in {dev_read_single(m, t, e.block)} })

RECURSIVE delete(_, _, _, _)
RECURSIVE delete_loop(_, _, _)

(* the loop of delete with the test of force left out *)
delete_loop_unchecked(m, t, force) ==
    The({ IF ~IsOk(m1) \/ ~m1.ret THEN m1
          ELSE The({ IF is_root_or_parent(v) THEN m1
                     ELSE The({ IF ~IsOk(m2) THEN m2
                                ELSE delete_loop([m2 EXCEPT !.x = m1.x], t, force)
                                : m2 \in {IF is_directory(v) THEN delete(m1, t, v, force)
                                          ELSE entry_delete(m1, t, v)} })
                     : v \in {m1.x.ent} })
          : m1 \in {x_next(m, TRUE)} })

(* delete: for e in vol.list_entry(Some(dir)); the iterator is m.x, and the *)
(* iterator of a recursive call reads into the same block_b                 *)
delete_loop(m, t, force) ==
    The({ IF IsOk(m1) /\ ~m1.ret THEN m1
          ELSE IF ~force THEN Fail(m1, "NonEmptyDirectory")
          ELSE IF ~IsOk(m1) THEN m1
          ELSE The({ IF is_root_or_parent(v) THEN m1
                     ELSE The({ IF ~IsOk(m2) THEN m2
                                ELSE delete_loop([m2 EXCEPT !.x = m1.x], t, force)
                                : m2 \in {IF is_directory(v) THEN delete(m1, t, v, force)
                                          ELSE entry_delete(m1, t, v)} })
                     : v \in {m1.x.ent} })
          : m1 \in {x_next(m, TRUE)} })

(* delete (the free function of file.rs) *)
delete(m, t, dir, force) ==
    The({ IF ~IsOk(m1) THEN m1
          ELSE The({ IF ~IsOk(m2) THEN m2
                     ELSE The({ IF ~IsOk(m3) THEN m3 ELSE truncate(m3, t, index(dir))
                                : m3 \in {entry_delete(m2, t, dir)} })
                     : m2 \in {delete_loop(m1, t, force)} })
          : m1 \in {reset_cluster([m EXCEPT !.x = DirectoryIndexNew], dir.cluster)} })

MaxDeletes == 2

(* "readme.txt": a name that needs an LFN record *)
NameReadme == <<114, 101, 97, 100, 109, 101, 46, 116, 120, 116>>

(* the two clusters of readme.txt *)
LongData == SubData + 3

(* "VOIDDIR": a directory as Volume::create_dir leaves it, holding only  *)
(* its self and parent records                                           *)
NameVoid == <<86, 79, 73, 68, 68, 73, 82>>

VoidCluster == LongData + 2

VoidDir ==
    RecordsBlock(<<ShortRecord(ShortSelf, 16, VoidCluster, 0),
                   ShortRecord(ShortParent, 16, 0, 0)>>)

(* the LFN record and the short record of a file with a name of at most 13 *)
(* characters, as DirEntry::write_lfn_entry and write_entry lay them out   *)
LongRecord(name) ==
    write_lfn_entry(fill_inner(LongEmpty, name),
                    [DirEntryNew(32, 1) EXCEPT !.name = to_sfn(name, ShortEmpty)], 0, 1)

(* the root: DATAFILE.BIN with no LFN record, SUBDIR01, readme.txt with its *)
(* LFN record before the short record, a file with no cluster, and VOIDDIR *)
DeleteRoot ==
    RecordsBlock(<<ShortRecord(to_sfn(NameData, ShortEmpty), 32, RootData, 3 * Blocks_bytes),
                   ShortRecord(to_sfn(NameSub, ShortEmpty), 16, SubCluster, 0),
                   LongRecord(NameReadme),
                   ShortRecord(to_sfn(NameReadme, ShortEmpty), 32, LongData, 2 * Blocks_bytes),
                   ShortRecord(to_sfn(NameEmpty, ShortEmpty), 32, 0, 0),
                   ShortRecord(to_sfn(NameVoid, ShortEmpty), 16, VoidCluster, 0)>>)

(* the FAT: the chains of OpenFat, two clusters for readme.txt and one for *)
(* VOIDDIR                                                                 *)
DeleteFat ==
    [i \in 0..(SIZE - 1) |->
        The({ The({ (val \div Pow256(i % free_width)) % 256
                    : val \in {IF c < RootData THEN EofMark(vol)
                               ELSE IF c \in {RootData, RootData + 1, SubData, SubData + 1,
                                              LongData}
                               THEN c + 1
                               ELSE IF c \in {RootData + 2, SubData + 2, LongData + 1, VoidCluster}
                               THEN EofMark(vol)
                               ELSE 0} })
              : c \in {i \div free_width} })]

(* where the record of each file lies *)
DeletePaths ==
    { [path |-> NameData, block |-> RootBlock, offset |-> 0],
      [path |-> NameReadme, block |-> RootBlock, offset |-> 3 * DIR_SIZE],
      [path |-> NameEmpty, block |-> RootBlock, offset |-> 4 * DIR_SIZE],
      [path |-> NameSub \o Slash \o NameData, block |-> block_pos_at(SubCluster),
       offset |-> 2 * DIR_SIZE] }

(* where the record of each directory lies; the root has none *)
DeleteDirs ==
    { [path |-> <<>>, block |-> 0, offset |-> 0, cluster |-> 0],
      [path |-> NameSub, block |-> RootBlock, offset |-> DIR_SIZE, cluster |-> SubCluster],
      [path |-> NameVoid, block |-> RootBlock, offset |-> 5 * DIR_SIZE,
       cluster |-> VoidCluster] }

InitDelete ==
    /\ vol \in Volumes
    /\ InitScratch
    /\ info \in {[next |-> 0, free |-> 0], [next |-> 10, free |-> 100]}
    /\ dev = ((vol.lba + vol.fat) :> DeleteFat) @@ (RootBlock :> DeleteRoot)
             @@ (block_pos_at(SubCluster) :> OpenSub)
             @@ (block_pos_at(VoidCluster) :> VoidDir)

(* what a delete returned and touched; e is the entry that was deleted *)
DeleteResult(op, m, at, e, force) ==
    [op |-> op, ok |-> IsOk(m), err |-> m.err, ret |-> 0, arg |-> force,
     rd |-> m.rd, wr |-> m.wr, al |-> m.al, path |-> at.path, block |-> at.block,
     offset |-> at.offset, cluster |-> e.cluster, lfn |-> e.lfn, found |-> e.block # 0]

DeleteDone(m, r) ==
    /\ Commit(m)
    /\ file' = [open |-> FALSE]
    /\ chain' = chain
    /\ res' = r
    /\ hist' = hist
    /\ steps' = steps + 1
    /\ UNCHANGED <<vol, spin, calls>>

(* Volume::file_open and File::delete on the handle *)
FileDelete ==
    /\ steps < MaxDeletes
    /\ \E at \in DeletePaths :
         \E m \in {open_inner(Machine, at.path, WRITE)} :
            IF ~IsOk(m) THEN DeleteDone(m, DeleteResult("file_open", m, at, new_root, FALSE))
            ELSE DeleteDone(entry_delete(m, "a", m.f),
                            DeleteResult("file_delete", entry_delete(m, "a", m.f), at, m.f, FALSE))

(* Volume::dir_open and Directory::delete on the handle *)
DirDelete ==
    /\ steps < MaxDeletes
    /\ \E at \in DeleteDirs, force \in BOOLEAN :
         \E m \in {find_dir([Machine EXCEPT !.x = DirectoryIndexNew], "a", at.path, FALSE)} :
            IF ~IsOk(m) THEN DeleteDone(m, DeleteResult("dir_open", m, at, new_root, force))
            ELSE \E m1 \in {delete(m, "a", m.ret, force)} :
                    DeleteDone(m1, DeleteResult("dir_delete", m1, at, m.ret, force))

NextDelete == FileDelete \/ DirDelete

SpecDelete == InitDelete /\ [][NextDelete]_vars

----------------------------------------------------------------------------
(* Paths through files and directories (SpecTree): fs/volume.rs *)

(* Volume::dir_entry; parent is the cluster of the parent entry, m.ret the *)
(* DirEntry of the Directory                                               *)
dir_entry(m, name, parent, creates) ==
    The({ IF ~IsOk(m1) THEN m1
          ELSE IF m1.ret.some
          THEN IF is_directory(m1.ret.e) THEN Ret(m1, m1.ret.e) ELSE Fail(m1, "NotADirectory")
          ELSE IF ~creates THEN Fail(m1, "NotFound")
          ELSE create_dir(m1, "a", name, parent)
          : m1 \in {The({ IF IsOk(m0) THEN index_find(m0, name) ELSE m0
                          : m0 \in {reset_cluster([m EXCEPT !.x = DirectoryIndexNew],
                                                  parent)} })} })

(* Volume::dir_open and Volume::dir_create *)
dir_open(m, path) == find_dir([m EXCEPT !.x = DirectoryIndexNew], "a", path, FALSE)
dir_create(m, path) == find_dir([m EXCEPT !.x = DirectoryIndexNew], "a", path, TRUE)

MaxTreeOps == 1

(* "B", "C", "NEW" and ".." *)
NameB == <<66>>
NameC == <<67>>
NameNew == <<78, 69, 87>>
DotDot == <<46, 46>>

(* the paths: through says that a component before the last is a regular    *)
(* file and before that every component ahead of that file exists, names    *)
(* what the whole path names on the volume the model starts from, lead is   *)
(* the cluster of the directory the leading components name and rest the    *)
(* components after them                                                    *)
TreePaths ==
    { [path |-> NameData \o Slash \o NameNew, through |-> TRUE, before |-> TRUE,
       names |-> "none", lead |-> 0, rest |-> <<>>],
      [path |-> NameSub \o Slash \o NameData \o Slash \o NameNew, through |-> TRUE,
       before |-> TRUE, names |-> "none", lead |-> 0, rest |-> <<>>],
      [path |-> NameNew \o Slash \o DotDot \o Slash \o NameData \o Slash \o NameB,
       through |-> TRUE, before |-> FALSE, names |-> "none", lead |-> 0, rest |-> <<>>],
      [path |-> NameSub, through |-> FALSE, before |-> TRUE, names |-> "dir", lead |-> 0, rest |-> <<>>],
      [path |-> NameData, through |-> FALSE, before |-> TRUE, names |-> "file", lead |-> 0, rest |-> <<>>],
      [path |-> NameSub \o Slash \o NameData, through |-> FALSE, before |-> TRUE, names |-> "file",
       lead |-> 0, rest |-> <<>>],
      [path |-> NameSub \o Slash \o NameB \o Slash \o NameC, through |-> FALSE, before |-> TRUE,
       names |-> "none", lead |-> SubCluster, rest |-> <<NameB, NameC>>],
      [path |-> NameB \o Slash \o NameC, through |-> FALSE, before |-> TRUE, names |-> "none",
       lead |-> 0, rest |-> <<NameB, NameC>>] }

TreeModes == {READ, WRITE, BitOr(WRITE, CREATE, 8), BitOr(BitOr(WRITE, CREATE, 8), TRUNCATE, 8)}

(* what a call returned and touched; at is the path and arg the mode, *)
(* makedirs or the create flag                                        *)
TreeResult(op, m, at, arg) ==
    [op |-> op, ok |-> IsOk(m), err |-> m.err, ret |-> 0, arg |-> arg, rd |-> m.rd,
     wr |-> m.wr, al |-> m.al, path |-> at.path, through |-> at.through,
     before |-> at.before,
     names |-> at.names, lead |-> at.lead, rest |-> at.rest]

TreeDone(m, r) ==
    /\ Commit(m)
    /\ file' = [open |-> FALSE]
    /\ chain' = chain
    /\ res' = r
    /\ hist' = hist
    /\ steps' = steps + 1
    /\ UNCHANGED <<vol, spin, calls>>

(* Volume::file_open *)
TreeFileOpen ==
    /\ steps < MaxTreeOps
    /\ \E at \in TreePaths, mode \in TreeModes :
         \E m \in {open_inner(Machine, at.path, mode)} :
            TreeDone(m, TreeResult("file_open", m, at, mode))

(* Volume::dir_open *)
TreeDirOpen ==
    /\ steps < MaxTreeOps
    /\ \E at \in TreePaths :
         \E m \in {dir_open(Machine, at.path)} :
            TreeDone(m, TreeResult("dir_open", m, at, 0))

(* Volume::dir_create *)
TreeDirCreate ==
    /\ steps < MaxTreeOps
    /\ \E at \in TreePaths :
         \E m \in {dir_create(Machine, at.path)} :
            TreeDone(m, TreeResult("dir_create", m, at, 0))

(* Volume::dir_entry on the last component of a path that has one directory *)
(* component at most, in the directory before it                            *)
TreeDirEntry ==
    /\ steps < MaxTreeOps
    /\ \E at \in {a \in TreePaths : a.names # "none"}, creates \in BOOLEAN :
         \E m \in {dir_entry(Machine,
                             SubSeq(at.path, rposition_sep(at.path) + 2, Len(at.path)),
                             IF rposition_sep(at.path) < 0 THEN 0 ELSE SubCluster, creates)} :
            TreeDone(m, TreeResult("dir_entry", m, at, IF creates THEN 1 ELSE 0))

NextTree == TreeFileOpen \/ TreeDirOpen \/ TreeDirCreate \/ TreeDirEntry

SpecTree == InitOpen /\ [][NextTree]_vars

----------------------------------------------------------------------------
(* Creating a file in a directory with no free run (SpecExtend):         *)
(* fs/volume.rs                                                          *)

MaxExtends == 1

(* "FULLDIR" *)
NameFull == <<70, 85, 76, 76, 68, 73, 82>>

(* the one-cluster directory FULLDIR and the cluster that follows it on *)
(* the volume                                                           *)
FullCluster == 3
NextCluster == FullCluster + 1

(* FULLDIR: ".", ".." and files in its first n slots *)
FullDirBlock(n) ==
    [i \in 0..(SIZE - 1) |->
        The({ IF k >= n THEN 0
              ELSE IF k = 0 THEN ShortRecord(ShortSelf, 16, FullCluster, 0)[i % DIR_SIZE]
              ELSE IF k = 1 THEN ShortRecord(ShortParent, 16, 0, 0)[i % DIR_SIZE]
              ELSE UsedEntry(k)[i % DIR_SIZE]
              : k \in {i \div DIR_SIZE} })]

ExtendRoot == RecordsBlock(<<ShortRecord(to_sfn(NameFull, ShortEmpty), 16, FullCluster, 0)>>)

(* the data of a file: no byte of it is 0 or 0xE5 *)
DataBlock == [i \in 0..(SIZE - 1) |-> 85]

(* the FAT: the root and FULLDIR end their chains; the cluster after *)
(* FULLDIR is free or the only cluster of a file                     *)
ExtendFat(taken) ==
    [i \in 0..(SIZE - 1) |->
        The({ The({ (val \div Pow256(i % free_width)) % 256
                    : val \in {IF c <= FullCluster \/ (taken /\ c = NextCluster)
                               THEN EofMark(vol) ELSE 0} })
              : c \in {i \div free_width} })]

ExtendLayouts == {[used |-> n, taken |-> t] : n \in (SIZE_PER_BLOCK - 2)..SIZE_PER_BLOCK,
                                              t \in BOOLEAN}

ExtendNames == {NameOther, NameLong, NameLonger}

InitExtend ==
    /\ vol \in Volumes
    /\ InitScratch
    /\ info \in {[next |-> 0, free |-> 0], [next |-> 10, free |-> 100]}
    /\ \E lay \in ExtendLayouts :
         /\ dev = ((vol.lba + vol.fat) :> ExtendFat(lay.taken))
                  @@ (RootBlock :> ExtendRoot)
                  @@ (block_pos_at(FullCluster) :> FullDirBlock(lay.used))
                  @@ (IF lay.taken THEN block_pos_at(NextCluster) :> DataBlock
                      ELSE block_pos_at(NextCluster) :> ZeroBlock)

(* what the create returned and touched: the record of the new file, the *)
(* chain of FULLDIR before the call and its slots in use                 *)
ExtendResult(m, name) ==
    [op |-> "extend", ok |-> IsOk(m), err |-> m.err, ret |-> 0, arg |-> name, pos |-> 0,
     rd |-> m.rd, wr |-> m.wr, al |-> m.al,
     block |-> IF IsOk(m) THEN m.f.block ELSE 0,
     offset |-> IF IsOk(m) THEN m.f.offset ELSE 0,
     count |-> lfn_size(fill_inner(LongEmpty, name)),
     before |-> walk(dev, FullCluster, 4)]

(* Volume::file_create of a new name in FULLDIR *)
ExtendCreate ==
    /\ steps < MaxExtends
    /\ \E name \in ExtendNames, junk \in Scratch :
         \E m \in {open_inner([Machine EXCEPT !.junk = junk], NameFull \o Slash \o name,
                              BitOr(BitOr(WRITE, CREATE, 8), TRUNCATE, 8))} :
             /\ Commit(m)
             /\ file' = IF IsOk(m) THEN m.f ELSE [open |-> FALSE]
             /\ chain' = chain \o m.al
             /\ res' = ExtendResult(m, name)
             /\ hist' = hist
    /\ steps' = steps + 1
    /\ UNCHANGED <<vol, spin, calls>>

NextExtend == ExtendCreate

SpecExtend == InitExtend /\ [][NextExtend]_vars

----------------------------------------------------------------------------
(* Listing a directory record by record (SpecScan): fs/volume/iter.rs *)

MaxScans == 20

(* an LFN record as a FAT driver stores it: the ordinal, at most 13     *)
(* characters with their 0 terminator and 0xFFFF padding, the checksum *)
LfnRecord(ord, text, sum) ==
    [i \in 0..(DIR_SIZE - 1) |->
        IF i = 0 THEN ord
        ELSE IF i = 11 THEN 15
        ELSE IF i = 13 THEN sum
        ELSE IF i \in {12, 26, 27} THEN 0
        ELSE The({ The({ IF k < Len(text) THEN (IF i = pos_to_lfn(k) THEN text[k + 1] ELSE 0)
                         ELSE IF k = Len(text) THEN 0
                         ELSE 255
                         : k \in {CHOOSE q \in 0..12 : pos_to_lfn(q) = lo} })
                   : lo \in {IF \E q \in 0..12 : pos_to_lfn(q) = i THEN i ELSE i - 1} })]

ShortOf(seq) == [i \in 0..(SFN_SIZE - 1) |-> seq[i + 1]]

(* "README  TXT", "PHOTO019TGA", "OLDFILE1BIN", "GHOSTLY1BIN", "LONGFI~1TXT" *)
(* and the volume label "INKYFRAME"                                          *)
ShortReadme == ShortOf(<<82, 69, 65, 68, 77, 69, 32, 32, 84, 88, 84>>)
ShortPhoto == ShortOf(<<80, 72, 79, 84, 79, 48, 49, 57, 84, 71, 65>>)
ShortOld == ShortOf(<<79, 76, 68, 70, 73, 76, 69, 49, 66, 73, 78>>)
ShortGhost == ShortOf(<<71, 72, 79, 83, 84, 76, 89, 49, 66, 73, 78>>)
ShortLong == ShortOf(<<76, 79, 78, 71, 70, 73, 126, 49, 84, 88, 84>>)
ShortLabel == ShortOf(<<73, 78, 75, 89, 70, 82, 65, 77, 69, 32, 32>>)

(* "orphan.dat", "PHOTO019.TGA", "GHOSTLY1.BIN" *)
NameOrphan == <<111, 114, 112, 104, 97, 110, 46, 100, 97, 116>>
NamePhoto == <<80, 72, 79, 84, 79, 48, 49, 57, 46, 84, 71, 65>>
NameGhost == <<71, 72, 79, 83, 84, 76, 89, 49, 46, 66, 73, 78>>

ZeroRecord == [i \in 0..(DIR_SIZE - 1) |-> 0]

(* SUBDIR01 with: readme.txt and its LFN record; a deleted record; an LFN  *)
(* record left without its short record, before DATAFILE.BIN; PHOTO019.TGA *)
(* and EMPTYFIL.BIN with short records only; the end of the directory and  *)
(* an old record after it                                                  *)
ScanNames ==
    RecordsBlock(<<ShortRecord(ShortSelf, 16, SubCluster, 0),
                   ShortRecord(ShortParent, 16, 0, 0),
                   LfnRecord(65, NameReadme, checksum(ShortReadme)),
                   ShortRecord(ShortReadme, 32, 0, 0),
                   [ShortRecord(ShortOld, 32, 0, 0) EXCEPT ![0] = 229],
                   LfnRecord(65, NameOrphan, (checksum(to_sfn(NameData, ShortEmpty)) + 1) % 256),
                   ShortRecord(to_sfn(NameData, ShortEmpty), 32, SubData, 3 * Blocks_bytes),
                   ShortRecord(ShortPhoto, 32, 0, 0),
                   ShortRecord(to_sfn(NameEmpty, ShortEmpty), 32, 0, 0),
                   ZeroRecord,
                   ShortRecord(ShortGhost, 32, 0, 0)>>)

(* SUBDIR01 with: a volume label; LONGFILENAME.TXT with its two LFN   *)
(* records; a deleted LFN record and its deleted short record; a file *)
ScanLabel ==
    RecordsBlock(<<ShortRecord(ShortSelf, 16, SubCluster, 0),
                   ShortRecord(ShortParent, 16, 0, 0),
                   ShortRecord(ShortLabel, 8, 0, 0),
                   LfnRecord(66, SubSeq(NameLong, 14, 16), checksum(ShortLong)),
                   LfnRecord(1, SubSeq(NameLong, 1, 13), checksum(ShortLong)),
                   ShortRecord(ShortLong, 32, 0, 0),
                   [LfnRecord(65, NameOrphan, checksum(ShortOld)) EXCEPT ![0] = 229],
                   [ShortRecord(ShortOld, 32, 0, 0) EXCEPT ![0] = 229],
                   ShortRecord(ShortPhoto, 32, 0, 0)>>)

(* SUBDIR01 with every slot of its only cluster in use *)
ScanFull ==
    [i \in 0..(SIZE - 1) |->
        The({ IF k = 0 THEN ShortRecord(ShortSelf, 16, SubCluster, 0)[i % DIR_SIZE]
              ELSE IF k = 1 THEN ShortRecord(ShortParent, 16, 0, 0)[i % DIR_SIZE]
              ELSE UsedEntry(k)[i % DIR_SIZE]
              : k \in {i \div DIR_SIZE} })]

ScanBlocks == {ScanNames, ScanLabel, ScanFull}

(* the names asked for *)
ScanQueries == {NameReadme, NameOrphan, NameData, NamePhoto, NameEmpty, NameGhost, NameLong}

(* hist.x is the DirectoryIndex a listing holds, hist.seen the offsets of *)
(* the records it returned, hist.ended that it reported the end           *)
InitScan ==
    /\ vol \in Volumes
    /\ block_a \in Scratch
    /\ block_b = ZeroBlock
    /\ lfn = LongEmpty
    /\ info = [next |-> 0, free |-> 0]
    /\ \E blk \in ScanBlocks :
         dev = ((vol.lba + vol.fat) :> OpenFat) @@ (RootBlock :> OpenRoot)
               @@ (block_pos_at(SubCluster) :> blk)
    /\ file = [open |-> FALSE]
    /\ hist = [x |-> DirectoryIndexNew, listing |-> FALSE, seen |-> <<>>, ended |-> FALSE]
    /\ chain = <<>>
    /\ res = NoResult("init")
    /\ steps = 0
    /\ spin = [s \in Slots |-> FALSE]
    /\ calls = [c \in Cores |-> Idle]

(* what a call of the listing returned: the record it stands on, how its *)
(* name is reported and which of the names asked for it equals           *)
ScanResult(op, m, some, dir) ==
    [op |-> op, ok |-> IsOk(m), err |-> m.err, ret |-> 0, arg |-> dir, pos |-> 0,
     rd |-> m.rd, wr |-> m.wr, al |-> m.al,
     first |-> m.x.block, count |-> m.x.blocks - m.x.block,
     some |-> some,
     block |-> IF some THEN m.x.ent.block ELSE 0,
     offset |-> IF some THEN m.x.ent.offset ELSE 0,
     lfn |-> IF some THEN m.x.ent.lfn ELSE 0,
     name |-> IF some THEN val_name(m) ELSE <<>>,
     match |-> IF some THEN {q \in ScanQueries : val_eq(m, q)} ELSE {},
     after |-> hist.ended]

(* Directory::list on the root (no cluster) or on SUBDIR01: *)
(* Volume::list_entry                                      *)
ScanDirs == {0, SubCluster}

ScanList ==
    /\ ~hist.listing
    /\ steps < MaxScans
    /\ \E dir \in ScanDirs :
         \E m \in {reset_cluster([Machine EXCEPT !.x = DirectoryIndexNew], dir)} :
             /\ Commit(m)
             /\ res' = ScanResult("list", m, FALSE, dir)
             /\ hist' = [hist EXCEPT !.x = m.x, !.listing = IsOk(m)]
    /\ steps' = steps + 1
    /\ UNCHANGED <<vol, file, chain, spin, calls>>

(* Iterator::next of DirectoryIterMut: DirectoryIndex::next(true) *)
ScanNext ==
    /\ hist.listing
    /\ steps < MaxScans
    /\ \E m \in {x_next([Machine EXCEPT !.x = hist.x], TRUE)} :
         /\ Commit(m)
         /\ res' = ScanResult("next", m, IsOk(m) /\ m.ret, hist.x.cluster)
         /\ hist' = [hist EXCEPT !.x = m.x,
                                 !.seen = IF IsOk(m) /\ m.ret
                                          THEN Append(@, <<m.x.ent.block, m.x.ent.offset>>)
                                          ELSE @,
                                 !.ended = @ \/ ~(IsOk(m) /\ m.ret)]
    /\ steps' = steps + 1
    /\ UNCHANGED <<vol, file, chain, spin, calls>>

NextScan == ScanList \/ ScanNext

SpecScan == InitScan /\ [][NextScan]_vars

----------------------------------------------------------------------------
(* An open File: reading, writing, seeking, truncating, flushing and *)
(* closing (SpecHandle): fs/volume/file.rs                           *)

MaxHandleOps == 3

(* Volume::sync: the hints go to the FS information sector of FAT32 *)
volume_sync(m, t) ==
    IF ~vol.fat32 THEN m
    ELSE IF m.info.next = 0 /\ m.info.free = 0 THEN m
    ELSE The({ The({ The({ dev_write_single(SetBuf(m1, t, b2), t, vol.sector)
                           : b2 \in {IF m1.info.next # 0
                                     THEN write_u32(b1, 492, m1.info.next) ELSE b1} })
                     : b1 \in {IF m1.info.free # 0
                               THEN write_u32(Buf(m1, t), 488, m1.info.free)
                               ELSE Buf(m1, t)} })
               : m1 \in {dev_read_single(m, t, vol.sector)} })

(* File::is_dirty *)
is_dirty(f) == BitAnd(f.mode, 128, 8) # 0

(* File::flush *)
flush(m) ==
    IF ~is_dirty(m.f) THEN m
    ELSE The({ IF ~IsOk(m1) THEN m1 ELSE sync(m1, "a") : m1 \in {volume_sync(m, "a")} })

(* File::close: self.flush(), then Drop for File flushes once more and *)
(* drops its result                                                   *)
close(m) ==
    The({ [flush([m1 EXCEPT !.err = ""]) EXCEPT !.err = m1.err] : m1 \in {flush(m)} })

(* File::truncate *)
file_truncate(m, p) ==
    IF ult(m.f.size, p) THEN Fail(m, "InvalidIndex")
    ELSE [m EXCEPT !.f.size = p, !.f.pos = IF ult(@, p) THEN p ELSE @]

(* File::read: while p < t && self.pos < self.file.size; m.ret is the *)
(* count and the bytes copied out                                     *)
RECURSIVE read_loop(_, _, _, _, _)
read_loop(m, t, p, l, out) ==
    IF p >= t \/ ~ult(m.f.pos, m.f.size) THEN Ret(m, [n |-> p, bytes |-> out])
    ELSE The({ IF m1.err = "EndOfFile" THEN Ret([m1 EXCEPT !.err = ""], [n |-> p, bytes |-> out])
               ELSE IF ~IsOk(m1) THEN m1
               ELSE The({ The({ IF n = 0 THEN Ret(m2, [n |-> p, bytes |-> out])
                                ELSE read_loop([m2 EXCEPT !.f.pos = @ + n], t, p + n, d.i,
                                               out \o [k \in 1..n |-> Buf(m2, "a")[d.o + k - 1]])
                                : n \in {Min(Min(d.a, t - p), m2.f.size - m2.f.pos)} })
                          : d \in {m1.ret},
                            m2 \in {IF m1.ret.i # l THEN dev_read_single(m1, "a", m1.ret.i)
                                    ELSE m1} })
               : m1 \in {data(m, "a")} })

(* File::is_readable and File::read of t bytes *)
is_readable(f) == f.mode \div 16 = 0
read(m, t) ==
    IF ~is_readable(m.f) THEN Fail(m, "NotReadable")
    ELSE IF t = 0 THEN Ret(m, [n |-> 0, bytes |-> <<>>])
    ELSE read_loop(m, t, 0, -1, <<>>)

(* the records of the root a File is opened over: DATAFILE.BIN with its *)
(* three clusters and EMPTYFIL.BIN with none                            *)
HandleEntries ==
    { [lfn |-> 0, name |-> to_sfn(NameData, ShortEmpty), cluster |-> RootData,
       size |-> 3 * Blocks_bytes, attrs |-> 32, block |-> RootBlock, offset |-> 0],
      [lfn |-> 0, name |-> to_sfn(NameEmpty, ShortEmpty), cluster |-> 0, size |-> 0,
       attrs |-> 32, block |-> RootBlock, offset |-> 2 * DIR_SIZE] }

(* the bytes of cluster c of a file *)
ClusterData(c) == [i \in 0..(SIZE - 1) |-> 65 + c]

HandleLens == {10, 600}
HandleSeeks == {0, 100, 512, 1100}
HandleCuts == {0, 100, 1100, 2000}

(* hist.flushed: the last call that returned Ok was a flush; hist.closed: *)
(* the File was closed                                                     *)
InitHandle ==
    /\ vol \in Volumes
    /\ block_a \in Scratch
    /\ block_b = ZeroBlock
    /\ lfn = LongEmpty
    /\ info = [next |-> 0, free |-> 0]
    /\ dev = ((vol.lba + vol.fat) :> OpenFat) @@ (RootBlock :> OpenRoot)
             @@ (block_pos_at(SubCluster) :> OpenSub)
             @@ [n \in {block_pos_at(RootData + k) : k \in 0..2} |->
                    ClusterData(2 + ((n - block_pos_at(2)) \div Blocks_blocks))]
    /\ \E e \in HandleEntries : file = FileNew(e, WRITE)
    /\ hist = [flushed |-> FALSE, closed |-> FALSE]
    /\ chain = <<>>
    /\ res = NoResult("init")
    /\ steps = 0
    /\ spin = [s \in Slots |-> FALSE]
    /\ calls = [c \in Cores |-> Idle]

(* what a call on the File returned and touched, the cursor, the size and *)
(* the dirty bit it started from and whether it came right after a flush  *)
HandleResult(op, m, arg, ret) ==
    [op |-> op, ok |-> IsOk(m), err |-> m.err, ret |-> IF IsOk(m) THEN ret ELSE 0,
     arg |-> arg, pos |-> file.pos, size |-> file.size, dirty |-> is_dirty(file),
     rd |-> m.rd, wr |-> m.wr, al |-> m.al, after |-> hist.flushed]

HandleDone(m, r) ==
    /\ FileCommit(m)
    /\ res' = r
    /\ hist' = [hist EXCEPT !.flushed = r.ok /\ r.op = "flush", !.closed = r.op = "close"]
    /\ steps' = steps + 1
    /\ UNCHANGED <<vol, spin, calls>>

HandleOpen == steps < MaxHandleOps /\ ~hist.closed

HandleWrite ==
    /\ HandleOpen
    /\ \E n \in HandleLens :
         \E m \in {write(Machine, Payload(n))} :
             HandleDone(m, HandleResult("write", m, n, m.ret))

HandleRead ==
    /\ HandleOpen
    /\ \E n \in HandleLens :
         \E m \in {read(Machine, n)} :
             HandleDone(m, HandleResult("read", m, n, IF IsOk(m) THEN m.ret.n ELSE 0))

HandleSeek ==
    /\ HandleOpen
    /\ \E v \in HandleSeeks :
         \E m \in {seek_start(Machine, v)} :
             HandleDone(m, HandleResult("seek", m, v, m.ret))

HandleTruncate ==
    /\ HandleOpen
    /\ \E p \in HandleCuts :
         \E m \in {file_truncate(Machine, p)} :
             HandleDone(m, HandleResult("truncate", m, p, 0))

HandleFlush ==
    /\ HandleOpen
    /\ \E m \in {flush(Machine)} :
         HandleDone(m, HandleResult("flush", m, 0, 0))

HandleClose ==
    /\ HandleOpen
    /\ \E m \in {close(Machine)} :
         HandleDone(m, HandleResult("close", m, 0, 0))

NextHandle ==
    HandleWrite \/ HandleRead \/ HandleSeek \/ HandleTruncate \/ HandleFlush \/ HandleClose

SpecHandle == InitHandle /\ [][NextHandle]_vars

----------------------------------------------------------------------------
(* Names (SpecName): LongName::fill with lfn_size, and ShortName::fill, *)
(* applied to names of every length that a LongName holds               *)

(* a name of n lower-case letters without a '.' *)
NameOf(n) == [i \in 1..n |-> 97 + ((i - 1) % 26)]

NameMixed == <<97, 98, 46, 99>>
NameSpaced == <<109, 121, 32, 102, 46, 116, 120>>
NameUpper == <<76, 79, 78, 71, 70, 73, 76, 69, 78, 65, 77, 69>>

NameInputs ==
    {NameOf(n) : n \in 0..LFN_SIZE}
        \cup {NameMixed, NameSpaced, NameUpper, NameData, NameLong, NameLonger,
              NameReadme, NameSub, NameFull, NameShort}

InitName ==
    /\ vol \in Volumes
    /\ InitScratch
    /\ dev = (vol.lba + vol.fat :> FatImage(vol, 3, FALSE))
    /\ info = [next |-> 0, free |-> 0]

NameResult(op, name, l, s, e) ==
    [op |-> op, ok |-> e = "", err |-> e, ret |-> 0, arg |-> name, pos |-> 0,
     rd |-> {}, wr |-> {}, al |-> <<>>, count |-> lfn_size(l), short |-> s]

(* LongName::empty, then LongName::fill, then lfn_size; each behaviour *)
(* builds one name                                                    *)
LongFill ==
    \E name \in NameInputs :
        /\ res.op = "init"
        /\ lfn' = IF Len(name) > LFN_SIZE THEN LongEmpty
                  ELSE fill_inner(LongEmpty, name)
        /\ res' = NameResult("lfn_size", name, lfn', ShortEmpty,
                             IF Len(name) > LFN_SIZE THEN "NameTooLong" ELSE "")
        /\ UNCHANGED <<vol, dev, block_a, block_b, info, file, chain, hist, steps,
                       spin, calls>>

(* ShortName::from_slice: ShortName::empty, then ShortName::fill *)
ShortFill ==
    \E name \in NameInputs :
        /\ res.op = "init"
        /\ res' = NameResult("to_sfn", name, lfn, to_sfn(name, ShortEmpty), "")
        /\ UNCHANGED <<vol, dev, block_a, block_b, lfn, info, file, chain, hist,
                       steps, spin, calls>>

NextName == LongFill \/ ShortFill

SpecName == InitName /\ [][NextName]_vars

----------------------------------------------------------------------------
(* The life of a file (SpecCycle): Volume::file_create, File::write,   *)
(* File::close, then Volume::file_open and File::delete                *)

MaxCycleWrites == 2

CycleNames == {NameShort, NameLong, NameLonger}
CycleLens == {10, 600}

(* the clusters of the first FAT sector whose entry reads free *)
FreeSet(d) == {c \in 2..LastSlot(vol) : fat_value(d, c) % (EofMark(vol) + 1) = 0}

(* hist.phase: how far the file has come; hist.free: the free clusters *)
(* before it was created; hist.writes: the writes made                 *)
InitCycle ==
    /\ vol \in Volumes
    /\ block_a \in Scratch
    /\ block_b = ZeroBlock
    /\ lfn = LongEmpty
    /\ info \in {[next |-> 0, free |-> 0], [next |-> 10, free |-> 100]}
    /\ dev = ((vol.lba + vol.fat) :> OpenFat) @@ (RootBlock :> OpenRoot)
             @@ (block_pos_at(SubCluster) :> OpenSub)
    /\ file = [open |-> FALSE]
    /\ hist = [phase |-> "none", name |-> <<>>, free |-> {}, writes |-> 0]
    /\ chain = <<>>
    /\ res = NoResult("init")
    /\ steps = 0
    /\ spin = [s \in Slots |-> FALSE]
    /\ calls = [c \in Cores |-> Idle]

CycleResult(op, m, arg) ==
    [op |-> op, ok |-> IsOk(m), err |-> m.err, ret |-> 0, arg |-> arg, pos |-> 0,
     rd |-> m.rd, wr |-> m.wr, al |-> m.al]

CycleDone(m, r, phase) ==
    /\ Commit(m)
    /\ chain' = chain \o m.al
    /\ res' = r
    /\ steps' = steps + 1
    /\ hist' = [hist EXCEPT !.phase = IF r.ok THEN phase ELSE "failed"]
    /\ UNCHANGED <<vol, spin, calls>>

CycleCreate ==
    /\ hist.phase = "none"
    /\ \E name \in CycleNames :
         \E m \in {open_inner(Machine, name, BitOr(BitOr(WRITE, CREATE, 8), TRUNCATE, 8))} :
             /\ Commit(m)
             /\ file' = IF IsOk(m) THEN m.f ELSE [open |-> FALSE]
             /\ chain' = chain \o m.al
             /\ res' = CycleResult("create", m, 0)
             /\ steps' = steps + 1
             /\ hist' = [phase |-> IF IsOk(m) THEN "created" ELSE "failed", name |-> name,
                         free |-> FreeSet(dev), writes |-> 0]
             /\ UNCHANGED <<vol, spin, calls>>

CycleWrite ==
    /\ hist.phase \in {"created", "written"}
    /\ hist.writes < MaxCycleWrites
    /\ \E n \in CycleLens :
         \E m \in {write(Machine, Payload(n))} :
             /\ Commit(m)
             /\ file' = m.f
             /\ chain' = chain \o m.al
             /\ res' = CycleResult("write", m, n)
             /\ steps' = steps + 1
             /\ hist' = [hist EXCEPT !.phase = IF IsOk(m) THEN "written" ELSE "failed",
                                     !.writes = @ + 1]
             /\ UNCHANGED <<vol, spin, calls>>

CycleClose ==
    /\ hist.phase = "written"
    /\ \E m \in {close(Machine)} :
         /\ file' = [open |-> FALSE]
         /\ CycleDone(m, CycleResult("close", m, 0), "closed")

(* Volume::file_open of the name, then File::delete *)
CycleDelete ==
    /\ hist.phase = "closed"
    /\ \E m \in {open_inner(Machine, hist.name, WRITE)} :
         /\ file' = [open |-> FALSE]
         /\ IF ~IsOk(m) THEN CycleDone(m, CycleResult("file_open", m, 0), "failed")
            ELSE \E m1 \in {entry_delete(m, "a", m.f)} :
                     CycleDone(m1, CycleResult("delete", m1, m.f.cluster), "deleted")

NextCycle == CycleCreate \/ CycleWrite \/ CycleClose \/ CycleDelete

SpecCycle == InitCycle /\ [][NextCycle]_vars

----------------------------------------------------------------------------
(* Claims on the FAT (SpecFat) *)

(* a FAT entry with the reserved top bits of FAT32 masked off *)
fat_entry(d, idx) == IF vol.fat32 THEN fat_value(d, idx) % 268435456 ELSE fat_value(d, idx)

(* the clusters whose FAT entries lie in the first sector of the FAT *)
FirstSector == 0..LastSlot(vol)

(* C3: starting from an empty chain, after N successful allocations, each   *)
(* passing the previously returned cluster as prev, the walk with           *)
(* cluster-next from the first returned cluster visits exactly N distinct   *)
(* clusters, the allocated ones in order, and then reports no next.         *)
C3_ChainWalk ==
    chain # <<>> =>
        /\ walk(dev, chain[1], Len(chain)) = [seq |-> chain, end |-> "none"]
        /\ Cardinality(Range(chain)) = Len(chain)

(* the step was a successful truncate at a cluster that headed a *)
(* well-formed chain w                                           *)
TruncatedAt(w) ==
    /\ res'.op = "truncate"
    /\ res'.ok
    /\ res'.arg >= 2
    /\ w = walk(dev, res'.arg, MaxSteps + 3)
    /\ w.end = "none"

(* C7: after a truncate at a valid cluster pos succeeds, cluster-next of    *)
(* pos reports no next, every cluster that was after pos in the chain has   *)
(* FAT value 0, and every other cluster keeps its FAT value.                *)
C7_TruncateFrees ==
    [][\A w \in {walk(dev, res'.arg, MaxSteps + 3)} :
          TruncatedAt(w) =>
            /\ fat_next(dev', res'.arg) = [err |-> "", ret |-> 0]
            /\ \A i \in 2..Len(w.seq) : fat_entry(dev', w.seq[i]) = 0
            /\ \A c \in FirstSector \ Range(w.seq) :
                   fat_value(dev', c) = fat_value(dev, c)]_vars

(* C8: a present free-count hint goes down by exactly 1 on a successful     *)
(* allocation and up by exactly k on a truncate that frees k clusters, and  *)
(* a truncate never stores a cluster number in it.                          *)
C8_FreeHint ==
    [][/\ (res'.op = "allocate" /\ res'.ok /\ info.free # 0)
            => info'.free = info.free - 1
       /\ \A w \in {walk(dev, res'.arg, MaxSteps + 3)} :
            TruncatedAt(w) =>
              /\ info.free # 0 => info'.free = info.free + (Len(w.seq) - 1)
              /\ Len(w.seq) > 1 => info'.free # w.seq[2]]_vars

----------------------------------------------------------------------------
(* Claims on files (SpecFile) *)

(* the byte at file offset q of the file whose chain is seq *)
StoredByte(d, seq, q) ==
    DevRead(d, block_pos_at(seq[(q \div Blocks_bytes) + 1])
               + ((q % Blocks_bytes) \div SIZE))[q % SIZE]

(* C4: writing N bytes sequentially from offset 0 to a file that had no     *)
(* cluster, in one or several writes: every write returns the full count    *)
(* and the chain from the entry's start cluster is the ceil(N/cluster_bytes)*)
(* allocated clusters, linked in allocation order.                          *)
C4_SequentialWrite ==
    (hist.fresh /\ ~hist.seeked /\ res.op = "write") =>
        /\ res.ok
        /\ res.ret = res.arg
        /\ file.cluster # 0
        /\ walk(dev, file.cluster, Len(chain) + 1) = [seq |-> chain, end |-> "none"]
        /\ Len(chain) = (hist.total + (Blocks_bytes - 1)) \div Blocks_bytes

(* C5: the first write to a file with no cluster allocates one cluster c,   *)
(* c becomes the entry's start cluster, and the bytes are stored in the     *)
(* sector block_pos_at(c) and in no other sector (the FAT entry of c aside).*)
C5_FirstWrite ==
    [][(file.cluster = 0 /\ res'.op = "write" /\ res'.arg <= SIZE) =>
          /\ res'.ok
          /\ Len(res'.al) = 1
          /\ file'.cluster = res'.al[1]
          /\ \A k \in 0..(res'.arg - 1) :
                 DevRead(dev', block_pos_at(file'.cluster))[k] = Payload(res'.arg)[k + 1]
          /\ res'.wr \subseteq {offset(file'.cluster).n, block_pos_at(file'.cluster)}]_vars

(* C6: a write of n bytes at file position p leaves every stored byte of    *)
(* the file outside [p, p + n) as it was on the device.                     *)
C6_WriteFrame ==
    [][(res'.op = "write" /\ is_allocated(file)) =>
          \A w \in {walk(dev, file.cluster, MaxSteps + 3)} :
              \A q \in 0..(file.size - 1) :
                  (/\ q \div Blocks_bytes < Len(w.seq)
                   /\ (q < res'.pos \/ q >= res'.pos + res'.arg))
                  => StoredByte(dev', w.seq, q) = StoredByte(dev, w.seq, q)]_vars

----------------------------------------------------------------------------
(* Claims on directories (SpecDir) *)

(* C1: once creating a file under a name of at most 255 bytes that was not *)
(* in the directory has succeeded, a fresh scan of the directory for the   *)
(* name finds a live entry whose name is the requested name byte for byte, *)
(* wherever the run of free slots lay.                                     *)
C1_CreateThenFind ==
    (res.op = "find" /\ res.arg \in hist.created) =>
        /\ res.ok
        /\ res.found
        /\ res.name = res.arg

(* the record in slot j of the root, slots counted across its first sectors *)
SlotRec(d, j) ==
    [k \in 0..(DIR_SIZE - 1) |->
        DevRead(d, RootBlock + (j \div SIZE_PER_BLOCK))[((j % SIZE_PER_BLOCK) * DIR_SIZE) + k]]

RootSlots == 0..((2 * SIZE_PER_BLOCK) - 1)

(* the create wrote k LFN records and then the short record of name, in *)
(* consecutive slots, and no other slot                                 *)
CreateWrote(d, d2, name, k) ==
    \E p \in RootSlots :
        /\ p + k \in RootSlots
        /\ {j \in RootSlots : SlotRec(d, j) # SlotRec(d2, j)} = p..(p + k)
        /\ \A j \in p..(p + k - 1) : SlotRec(d2, j)[11] = 15
        /\ SlotRec(d2, p + k)[11] # 15
        /\ \A i \in 0..(SFN_SIZE - 1) : SlotRec(d2, p + k)[i] = to_sfn(name, ShortEmpty)[i]

(* C2: creating LONGFILENAME.TXT in the root of a FAT16 volume writes 2 LFN *)
(* records and then 1 short record, in consecutive slots, the short name    *)
(* being LONGFI~1 TXT; in general a create writes lfn_size(name) LFN        *)
(* records immediately before the short record.                             *)
C2_CreateRecords ==
    [][(res'.op = "create" /\ res'.ok /\ res'.arg \notin hist.created) =>
          /\ CreateWrote(dev, dev', res'.arg, lfn_size(fill_inner(LongEmpty, res'.arg)))
          /\ (res'.arg = NameLong /\ ~vol.fat32) =>
                /\ CreateWrote(dev, dev', NameLong, 2)
                /\ to_sfn(NameLong, ShortEmpty)
                     = [i \in 0..(SFN_SIZE - 1) |->
                           <<76, 79, 78, 71, 70, 73, 126, 49, 84, 88, 84>>[i + 1]]]_vars

----------------------------------------------------------------------------
(* Claims on opening (SpecOpen, SpecMode) *)

(* the start cluster and the size in the record at block, offset *)
RecCluster(d, block, off) == load_cluster(DevRead(d, block), off, vol.fat32)
RecSize(d, block, off) == read_u32(DevRead(d, block), off + 28)

(* the sectors of the FAT *)
IsFatSector(n) == ule(vol.lba + vol.fat, n) /\ ult(n, vol.lba + vol.data)

(* the chain w of the file was cut after its first cluster *)
ChainCut(d2, w) ==
    /\ w.end = "none"
    /\ fat_next(d2, w.seq[1]) = [err |-> "", ret |-> 0]
    /\ \A i \in 2..Len(w.seq) : fat_entry(d2, w.seq[i]) = 0

(* C9: opening an existing file with TRUNCATE and without APPEND frees every *)
(* cluster after the first of its chain, sets the size of the handle to 0    *)
(* and stores the entry with size 0, for a bare name in the root as for a    *)
(* path through a directory; for a file with no cluster it succeeds and      *)
(* touches no sector of the FAT.                                             *)
C9_OpenTruncate ==
    [][(/\ res'.op = "open"
        /\ is_mode_valid(res'.arg)
        /\ BitAnd(res'.arg, TRUNCATE, 8) # 0
        /\ BitAnd(res'.arg, APPEND, 8) = 0) =>
          /\ res'.ok
          /\ file'.size = 0
          /\ RecSize(dev', res'.block, res'.offset) = 0
          /\ \A c \in {RecCluster(dev, res'.block, res'.offset)} :
                IF c = 0
                THEN \A n \in res'.rd \cup res'.wr : ~IsFatSector(n)
                ELSE ChainCut(dev', walk(dev, c, 4))]_vars

(* the modes the validation has to reject *)
ModeRejected(m) ==
    \/ (BitAnd(m, CREATE, 8) # 0 /\ BitAnd(m, WRITE, 8) = 0 /\ BitAnd(m, APPEND, 8) = 0)
    \/ (BitAnd(m, TRUNCATE, 8) # 0 /\ BitAnd(m, APPEND, 8) # 0)
    \/ m >= 16

(* C10: a mode with CREATE and neither WRITE nor APPEND, a mode with both  *)
(* TRUNCATE and APPEND, and a mode with a bit above the four flags are     *)
(* rejected with InvalidOptions before any access to the device; every     *)
(* other mode is accepted.                                                 *)
C10_ModeValidation ==
    (res.op = "open") =>
        IF ModeRejected(res.arg)
        THEN res.err = "InvalidOptions" /\ res.rd = {} /\ res.wr = {}
        ELSE res.err # "InvalidOptions"

----------------------------------------------------------------------------
(* Claims on the cache tokens (SpecCache) *)

LockedGuards(s) ==
    {<<c, i>> \in Cores \X (1..8) :
        i \in Guards(c, s) /\ calls[c].held[i].locked}

(* C11: for each of the three cache slots at most one guard obtained      *)
(* through a claiming acquire exists at any time                          *)
C11_OneGuard == \A s \in Slots : Cardinality(LockedGuards(s)) <= 1

(* C12: no call claims a token that its own call path already holds: a    *)
(* core that stands at a claiming acquire of a slot holds no guard of     *)
(* that slot taken by a claim of the running call                         *)
C12_NoReclaim ==
    \A c \in Cores :
        (~Returned(c) /\ At(c).op = "claim")
            => \A i \in Guards(c, At(c).slot) :
                   ~(calls[c].held[i].locked /\ calls[c].held[i].own)

----------------------------------------------------------------------------
(* Claims on allocation (SpecFull) *)

(* the clusters of the volume whose FAT entry is 0 *)
FreeClusters(d) == {c \in ValidClusters(vol) : fat_entry(d, c) = 0}

(* C13: allocation fails with NoSpace only when no cluster of the valid   *)
(* range is free; whenever at least one is free (also exactly one) it     *)
(* succeeds and returns a cluster whose FAT entry was 0 before            *)
C13_NoSpace ==
    [][res'.op = "allocate" =>
          /\ res'.err = "NoSpace" => FreeClusters(dev) = {}
          /\ FreeClusters(dev) # {} => res'.ok /\ fat_entry(dev, res'.ret) = 0]_vars

(* where the scan for a free cluster starts: at prev, from 2 without one *)
ScanStart(prev) == IF prev \in ValidClusters(vol) THEN prev ELSE 2

FirstFit(unused, s) ==
    IF \E c \in unused : c >= s THEN Lowest({c \in unused : c >= s}) ELSE Lowest(unused)

(* C14: the cluster an allocation returns is the lowest free cluster at   *)
(* or above the scan start, else the lowest free cluster from 2 upward    *)
C14_FirstFit ==
    [][res'.op = "allocate" /\ res'.ok =>
          \A unused \in {FreeClusters(dev)} :
              unused # {} /\ res'.ret = FirstFit(unused, ScanStart(res'.arg))]_vars

(* the FAT sectors that hold the entries of the clusters of the volume *)
ValidFatSectors == {offset(c).n : c \in ValidClusters(vol)}

(* C15: no FAT entry is read or updated for a cluster outside             *)
(* 2 .. total_clusters + 1, and no allocation returns a cluster above     *)
(* total_clusters + 1                                                     *)
C15_ValidRange ==
    res.op = "allocate" =>
        /\ res.ok => res.ret \in ValidClusters(vol)
        /\ \A n \in res.rd \cup res.wr : IsFatSector(n) => n \in ValidFatSectors

----------------------------------------------------------------------------
(* Claims on deleting (SpecDelete) *)

(* C16: deleting a file sets the first byte of its short record to 0xE5 and *)
(* truncates the chain of the entry, for every entry that has a cluster:    *)
(* with no LFN record as with LFN records before the short record.          *)
C16_DeleteTruncates ==
    [][(res'.op = "file_delete" /\ res'.cluster # 0) =>
          /\ res'.ok
          /\ DevRead(dev', res'.block)[res'.offset] = 229
          /\ ChainCut(dev', walk(dev, res'.cluster, 4))]_vars

(* the short records of the sector n that are in use, lie before the first *)
(* record whose first byte is 0 (the end of the directory) and are neither *)
(* "." nor "..": the children the sector holds                             *)
LiveChildren(d, n) ==
    {o \in {k * DIR_SIZE : k \in 0..(SIZE_PER_BLOCK - 1)} :
        \E b \in {DevRead(d, n)} :
            /\ \A k \in 0..(o \div DIR_SIZE) : b[k * DIR_SIZE] # 0
            /\ b[o] # 229
            /\ b[o + 11] # 15
            /\ [k \in 0..(SFN_SIZE - 1) |-> b[o + k]] \notin {ShortSelf, ShortParent}}

(* the record of the directory at is marked deleted *)
Marked(d, at) == DevRead(d, at.block)[at.offset] = 229

(* C17: Directory::delete with force deletes the directory recursively:   *)
(* when the call has marked the entry of a directory deleted, every child *)
(* entry of that directory was marked deleted before, for the directory   *)
(* of the call and for every subdirectory below it.                       *)
C17_ForceDeletesChildren ==
    [][(res'.op = "dir_delete" /\ res'.arg) =>
          \A at \in DeleteDirs :
              (at.cluster # 0 /\ Marked(dev', at)) =>
                  LiveChildren(dev', block_pos_at(at.cluster)) = {}]_vars

(* C18: Directory::delete without force on a directory that holds at least *)
(* one file or subdirectory returns NonEmptyDirectory and leaves every     *)
(* sector as it was: the entry of the directory, its children and the FAT. *)
C18_NonForceRefuses ==
    [][(/\ res'.op = "dir_delete"
        /\ ~res'.arg
        /\ LiveChildren(dev, block_pos_at(root(res'.cluster))) # {}) =>
          /\ res'.err = "NonEmptyDirectory"
          /\ dev' = dev]_vars

(* C18: SUBDIR01, which holds two files, was deleted without force *)
C18_Witness ==
    /\ res.op = "dir_delete"
    /\ ~res.arg
    /\ res.path = NameSub
    /\ res.err = "NonEmptyDirectory"
    /\ LiveChildren(dev, block_pos_at(SubCluster)) # {}

----------------------------------------------------------------------------
(* Claims on paths (SpecTree) *)

(* the calls that resolve a whole path *)
PathOps == {"file_open", "dir_open", "dir_create"}

(* a file open that names a directory fails with NotAFile, a directory open *)
(* that names a regular file with NotADirectory, and nothing is written     *)
WrongKind ==
    /\ (res'.op = "file_open" /\ res'.names = "dir") =>
           (res'.err = "NotAFile" /\ dev' = dev)
    /\ (res'.op \in {"dir_open", "dir_create", "dir_entry"} /\ res'.names = "file") =>
           (res'.err = "NotADirectory" /\ dev' = dev)

RecName(d, n, o) == [k \in 0..(SFN_SIZE - 1) |-> DevRead(d, n)[o + k]]

(* the first block of the directory c starts with "." holding c and ".." *)
(* holding parent                                                        *)
DirLinked(d, c, parent) ==
    /\ RecName(d, block_pos_at(c), 0) = ShortSelf
    /\ RecCluster(d, block_pos_at(c), 0) = c
    /\ RecName(d, block_pos_at(c), DIR_SIZE) = ShortParent
    /\ RecCluster(d, block_pos_at(c), DIR_SIZE) \in parent

(* the first sector of the directory p holds the record of a directory *)
(* whose cluster is c                                                  *)
DirHolds(d, p, c) ==
    \E o \in {k * DIR_SIZE : k \in 0..(SIZE_PER_BLOCK - 1)} :
        /\ DevRead(d, block_pos(p))[o] \notin {0, 229}
        /\ is_directory([attrs |-> DevRead(d, block_pos(p))[o + 11]])
        /\ RecCluster(d, block_pos(p), o) = c

(* the cluster numbers a ".." record may hold for the directory p: the *)
(* cluster of p, and for the root 0 or the cluster of the root         *)
ParentOf(p) == IF p # 0 THEN {p} ELSE IF vol.fat32 THEN {0, vol.root} ELSE {0}

(* C20: dir_create on a path whose leading components exist and whose    *)
(* remaining components do not creates every missing component in order, *)
(* each inside the one before it, and in each new directory "." holds    *)
(* the cluster of the new directory and ".." the cluster of the          *)
(* directory that contains it.                                           *)
C20_DirCreateLinks ==
    [][(res'.op = "dir_create" /\ res'.rest # <<>> /\ steps = 0) =>
          /\ res'.ok
          /\ Len(res'.al) = Len(res'.rest)
          /\ \A k \in 1..Len(res'.al) :
                \A p \in {IF k = 1 THEN res'.lead ELSE res'.al[k - 1]} :
                    /\ DirHolds(dev', p, res'.al[k])
                    /\ DirLinked(dev', res'.al[k], ParentOf(p))]_vars

----------------------------------------------------------------------------
(* Claims on the slot search of a create (SpecExtend) *)

(* slots k .. k + n - 1 of the sector b are unused or deleted *)
FreeRun(b, k, n) == \A j \in k..(k + n - 1) : is_free(b, j * DIR_SIZE)

(* the one-cluster directory FULLDIR of d has a run of n reusable slots *)
HasRun(d, n) ==
    \E k \in 0..(SIZE_PER_BLOCK - n) : FreeRun(DevRead(d, block_pos_at(FullCluster)), k, n)

(* C21: when the directory has no run of N consecutive reusable slots, the *)
(* create extends it by exactly one newly allocated cluster that is linked *)
(* to the end of its chain, and the short-name record is written in the    *)
(* first sector of that cluster, after its LFN records in on-disk order,   *)
(* in a cluster that is otherwise zero-filled.                             *)
C21_ExtendsByOne ==
    [][(res'.op = "extend" /\ ~HasRun(dev, res'.count)) =>
          /\ res'.ok
          /\ Len(res'.al) = 1
          /\ \A c \in {res'.al[1]} :
                /\ c \notin Range(res'.before.seq)
                /\ fat_entry(dev, c) = 0
                /\ walk(dev', FullCluster, 4) = [seq |-> res'.before.seq \o <<c>>, end |-> "none"]
                /\ res'.block = block_pos_at(c)
                /\ \A j \in 0..(SIZE_PER_BLOCK - 1) :
                      \E b \in {DevRead(dev', res'.block)} :
                          IF j * DIR_SIZE < res'.offset THEN b[(j * DIR_SIZE) + 11] = 15
                          ELSE IF j * DIR_SIZE = res'.offset
                          THEN [k \in 0..(SFN_SIZE - 1) |-> b[res'.offset + k]]
                               = to_sfn(res'.arg, ShortEmpty)
                          ELSE \A k \in 0..(DIR_SIZE - 1) : b[(j * DIR_SIZE) + k] = 0]_vars

----------------------------------------------------------------------------
(* Claims on the listing of a directory (SpecScan) *)

(* slot j of the sector b holds a live LFN record *)
IsLfnSlot(b, j) == b[(j * DIR_SIZE) + 11] = 15 /\ b[j * DIR_SIZE] \notin {0, 229}

(* the short name in slot j *)
ShortAt(b, j) == [k \in 0..(SFN_SIZE - 1) |-> b[(j * DIR_SIZE) + k]]

(* the long name the LFN records in the slots up to k add up to *)
RECURSIVE LongAcc(_, _, _)
LongAcc(b, k, l) ==
    IF k < 0 \/ ~IsLfnSlot(b, k) THEN l
    ELSE LongAcc(b, k - 1, fill_lfn(l, b, k * DIR_SIZE))

(* the LFN records before slot j carry the checksum of its short name *)
Agree(b, j) ==
    /\ j > 0
    /\ IsLfnSlot(b, j - 1)
    /\ b[((j - 1) * DIR_SIZE) + 13] = checksum(ShortAt(b, j))

(* C22: a record the scan returns is reported and matched by its long name *)
(* when the LFN records before it carry the checksum of its short name,    *)
(* and by its short name when the checksums differ or when no LFN record   *)
(* comes before it.                                                        *)
C22_ChecksumDecides ==
    (res.op = "next" /\ res.some) =>
        \E b \in {DevRead(dev, res.block)}, j \in {res.offset \div DIR_SIZE} :
            IF Agree(b, j)
            THEN \E long \in {as_bytes(LongAcc(b, j - 1, LongEmpty))} :
                    /\ res.name = long
                    /\ res.match = {q \in ScanQueries : q = long}
            ELSE /\ res.name = sfn_str(ShortAt(b, j))
                 /\ res.match = {q \in ScanQueries : sfn_eq(ShortAt(b, j), q)}

----------------------------------------------------------------------------
(* Claims on an open File (SpecHandle) *)

(* C23: a flush of a File that is not dirty writes nothing to the device; *)
(* a successful flush of a dirty File clears the dirty bit, so the flush  *)
(* or the close that follows it at once writes nothing either.            *)
C23_FlushClears ==
    [][/\ (res'.op = "flush" /\ ~res'.dirty) => res'.wr = {}
       /\ (res'.op = "flush" /\ res'.dirty /\ res'.ok) => ~is_dirty(file')
       /\ (res'.op \in {"flush", "close"} /\ res'.after) => res'.wr = {}]_vars

(* C24: truncate(p) with p not above the size does no device I/O and      *)
(* changes no FAT entry, leaves size = p and the cursor at the smaller of *)
(* the previous cursor and p; with p above the size it returns            *)
(* InvalidIndex and leaves size and cursor as they were.                  *)
C24_TruncateClamps ==
    [][res'.op = "truncate" =>
         IF ule(res'.arg, file.size)
         THEN /\ res'.ok
              /\ res'.rd = {} /\ res'.wr = {} /\ res'.al = <<>>
              /\ dev' = dev
              /\ file'.size = res'.arg
              /\ file'.pos = IF ult(file.pos, res'.arg) THEN file.pos
                             ELSE res'.arg
         ELSE /\ res'.err = "InvalidIndex"
              /\ file'.size = file.size
              /\ file'.pos = file.pos]_vars

----------------------------------------------------------------------------
(* Claims on names (SpecName) *)

(* C25: lfn_size of a name of 14 to 255 bytes is ceil((len + 1) / 13), *)
(* and it is 1 for a name of 0 to 13 bytes.                            *)
C25_LfnSizeCeil ==
    res.op = "lfn_size" =>
        \E n \in {Len(res.arg)} :
            res.count = IF n <= 13 THEN 1 ELSE (n + 1 + 12) \div 13

(* C26: ShortName::fill of a name (other than "", "." and "..") gives 11  *)
(* bytes in which a base of fewer than 8 bytes is followed by spaces up   *)
(* to byte 8, an extension of fewer than 3 bytes is followed by spaces,   *)
(* a base of more than 8 bytes is its first 6 bytes followed by "~1",     *)
(* and every ASCII letter of base and extension is upper case.            *)
IsLetter(c) == (c >= 65 /\ c <= 90) \/ (c >= 97 /\ c <= 122)

Upper(c) == IF c >= 97 /\ c <= 122 THEN c - 32 ELSE c

C26_ShortNameShape ==
    (res.op = "to_sfn" /\ Len(res.arg) > 0 /\ res.short \notin {ShortSelf, ShortParent}) =>
        \E i \in {rposition_dot(res.arg)} :
            \E n \in {IF i >= 0 THEN i ELSE Len(res.arg)},
               e \in {IF i >= 0 THEN Min(Len(res.arg) - (i + 1), 3) ELSE 0} :
                /\ DOMAIN res.short = 0..(SFN_SIZE - 1)
                /\ n < SIZE_NAME => \A k \in n..(SIZE_NAME - 1) : res.short[k] = 32
                /\ \A k \in (SIZE_NAME + e)..(SFN_SIZE - 1) : res.short[k] = 32
                /\ n > SIZE_NAME =>
                       /\ res.short[SIZE_NAME - 2] = 126
                       /\ res.short[SIZE_NAME - 1] = 49
                       /\ \A k \in 0..(SIZE_NAME - 3) :
                              IsLetter(res.arg[k + 1]) => res.short[k] = Upper(res.arg[k + 1])
                /\ \A k \in 0..(SFN_SIZE - 1) : ~(res.short[k] >= 97 /\ res.short[k] <= 122)

----------------------------------------------------------------------------
(* Further claims on the FAT (SpecFat) *)

(* the reserved top 4 bits of a FAT32 entry *)
TopBits(d, idx) == (fat_value(d, idx) \div 268435456) % 16

(* C27: on FAT32 every update of a FAT entry, the end-of-chain mark *)
(* included, leaves the top 4 bits of the entry as they were.       *)
C27_TopBitsKept ==
    [][vol.fat32 => \A c \in FirstSector : TopBits(dev', c) = TopBits(dev, c)]_vars

----------------------------------------------------------------------------
(* Further claims on listings (SpecScan) *)

(* the root directory: on FAT16 the fixed region behind the FATs, on FAT32 *)
(* the root cluster                                                        *)
RootFirst == IF vol.fat32 THEN block_pos_at(vol.root) ELSE vol.lba + vol.root

RootSectors == IF vol.fat32 THEN Blocks_blocks ELSE (vol.sector * DIR_SIZE) \div SIZE

(* C28: a scan of the root directory (no parent cluster) starts on FAT16 at *)
(* the first sector of the fixed root region, volume start + reserved      *)
(* sectors + FAT sectors, and is bounded by the root entry count * 32 / 512 *)
(* sectors of that region; on FAT32 it starts at the first sector of the   *)
(* root cluster and covers that cluster before following the chain.        *)
C28_RootRegion ==
    (res.op = "list" /\ res.arg = 0) =>
        /\ res.ok
        /\ res.rd = {RootFirst}
        /\ res.first = RootFirst
        /\ res.count = RootSectors

(* the slots of a directory sector that lie before its first slot with *)
(* first byte 0                                                        *)
FirstZero(b) ==
    The({ IF z = {} THEN SIZE_PER_BLOCK ELSE Lowest(z)
          : z \in {{j \in 0..(SIZE_PER_BLOCK - 1) : b[j * DIR_SIZE] = 0}} })

IsLiveSlot(b, j) ==
    /\ j < FirstZero(b)
    /\ b[j * DIR_SIZE] # 229
    /\ b[j * DIR_SIZE + 11] # 15

RECURSIVE LiveFrom(_, _, _)
LiveFrom(b, blk, j) ==
    IF j >= SIZE_PER_BLOCK THEN <<>>
    ELSE (IF IsLiveSlot(b, j) THEN <<(<<blk, j * DIR_SIZE>>)>> ELSE <<>>)
             \o LiveFrom(b, blk, j + 1)

IsPrefix(s, t) == Len(s) <= Len(t) /\ \A i \in 1..Len(s) : s[i] = t[i]

(* C29: a listing returns, in on-disk order, exactly the records before  *)
(* the first slot with first byte 0 that are neither deleted (0xE5) nor  *)
(* LFN records (attribute 0xF), nothing after such a slot, and once it   *)
(* has reported the end every further call reports the end.              *)
C29_ScanReturnsLive ==
    res.op = "next" =>
        \E blk \in {block_pos_at(root(res.arg))} :
            \E live \in {LiveFrom(DevRead(dev, blk), blk, 0)} :
                /\ res.ok
                /\ IsPrefix(hist.seen, live)
                /\ ~res.some => hist.seen = live
                /\ res.after => ~res.some

----------------------------------------------------------------------------
(* Further claims on an open File (SpecHandle) *)

(* the data sector of byte sector s of a file: floor(s / sectors per      *)
(* cluster) links from the start cluster, then the sector in that cluster *)
SectorOf(d, start, s) ==
    The({ IF Len(w.seq) > s \div Blocks_blocks
          THEN block_pos_at(w.seq[(s \div Blocks_blocks) + 1]) + (s % Blocks_blocks)
          ELSE 0
          : w \in {walk(d, start, s \div Blocks_blocks)} })

SectorsOf(d, start, pos, n) ==
    {SectorOf(d, start, s) : s \in (pos \div SIZE)..((pos + n - 1) \div SIZE)}

(* the sector of the FAT that holds every chain of the volume *)
FatSectors == {vol.lba + vol.fat}

(* C30: whatever seeks, reads and writes came before, the data sectors a  *)
(* read or a write uses for the cursor position pos are those reached by  *)
(* walking floor(pos / cluster bytes) links from the start cluster of the *)
(* entry: the cached cluster and offset never change the sector.          *)
C30_SectorByWalk ==
    [][(res'.op \in {"read", "write"} /\ res'.ok /\ res'.ret > 0) =>
          (IF res'.op = "read" THEN res'.rd ELSE res'.wr) \ FatSectors
              = SectorsOf(dev', file'.cluster, file.pos, res'.ret)]_vars

----------------------------------------------------------------------------
(* Claims on truncation at the first clusters (SpecFat) *)

(* C31: a truncate at a cluster index below 2 returns success without any *)
(* device access; a truncate at a cluster index of 2 or above, cluster 2  *)
(* included, frees the clusters that follow it in the chain (stated for   *)
(* chains that do not pass through the last entry of the FAT sector).     *)
C31_TruncateFromTwo ==
    [][res'.op = "truncate" =>
         IF res'.arg < 2
         THEN /\ res'.ok
              /\ res'.rd = {} /\ res'.wr = {}
              /\ dev' = dev
         ELSE \A w \in {walk(dev, res'.arg, MaxSteps + 3)} :
                  (w.end = "none" /\ LastSlot(vol) \notin Range(w.seq)) =>
                      /\ res'.ok
                      /\ fat_next(dev', res'.arg) = [err |-> "", ret |-> 0]
                      /\ \A i \in 2..Len(w.seq) : fat_entry(dev', w.seq[i]) = 0]_vars

(* C32: after an update of the FAT entry of a cluster returned success the *)
(* entry reads back the value written, also for a cluster whose entry is   *)
(* the last slot of a FAT sector: a cluster returned by an allocation is   *)
(* marked end-of-chain, and no later allocation returns a cluster of the   *)
(* chain that is being built.                                              *)
C32_UpdateReadsBack ==
    [][(res'.op = "allocate" /\ res'.ok) =>
          /\ fat_entry(dev', res'.ret) = EofMark(vol)
          /\ res'.ret \notin Range(chain)
          /\ chain # <<>> => fat_entry(dev', chain[Len(chain)]) = res'.ret]_vars

(* the sectors of a cluster *)
ClusterSectors(c) == block_pos_at(c)..(block_pos_at(c) + Blocks_blocks - 1)

(* C33: the zero-fill of a newly allocated cluster writes exactly the    *)
(* sectors of that cluster and no sector of the cluster that follows it. *)
C33_ZeroFillFrame ==
    [][(res'.op = "allocate" /\ res'.ok) =>
          (res'.wr \ FatSectors) \subseteq ClusterSectors(res'.ret)]_vars

----------------------------------------------------------------------------
(* Further claims on deletion (SpecDelete) *)

(* a scan of the root of the device d returns an entry named q *)
RootNames == {NameData, NameSub, NameReadme, NameEmpty}

ScanFinds(d, q) ==
    \E m0 \in {reset_cluster([Machine EXCEPT !.dev = d, !.x = DirectoryIndexNew], 0)} :
        /\ IsOk(m0)
        /\ \E m1 \in {index_find(m0, q)} : IsOk(m1) /\ m1.ret.some

(* C34: deleting one entry of a directory leaves every other entry that a *)
(* scan returned before the delete returned by a scan after it, also when *)
(* the deleted entry had LFN records.                                     *)
C34_DeleteKeepsOthers ==
    [][(res'.op = "file_delete" /\ res'.ok /\ res'.block = RootBlock) =>
          \A q \in RootNames \ {res'.path} :
              ScanFinds(dev, q) => ScanFinds(dev', q)]_vars

----------------------------------------------------------------------------
(* Claims on the life of a file (SpecCycle) *)

(* C35: after a file was created, written, closed and deleted, the free *)
(* FAT entries are those that were free before the file was created.    *)
C35_DeleteLeaksNothing ==
    (res.op = "delete" /\ res.ok) => FreeSet(dev) = hist.free

(* C36: after every seek, read, write and truncate the cursor is at most *)
(* the size, and a write of n bytes that started at cursor p leaves the  *)
(* size at max(previous size, p + n): overwriting bytes inside the file  *)
(* does not grow it.                                                     *)
C36_SizeAndCursor ==
    [][res'.op \in {"seek", "read", "write", "truncate"} =>
          /\ ule(file'.pos, file'.size)
          /\ (res'.op = "write" /\ res'.ok) =>
                 file'.size = IF ult(file.size, file.pos + res'.ret)
                              THEN file.pos + res'.ret ELSE file.size]_vars

(* C37: a File that was readable when it was opened stays readable after *)
(* writes have set the dirty bit, and read on it never returns           *)
(* NotReadable (every File of SpecHandle is readable when opened).       *)
C37_StaysReadable ==
    [][/\ is_readable(file) => is_readable(file')
       /\ res'.op = "read" => res'.err # "NotReadable"]_vars

(* the sectors of the mounted volume *)
VolumeSectors == vol.lba..(vol.lba + vol.blocks - 1)

(* C38: no delete writes a device sector outside the sector range of the *)
(* mounted volume; deleting a handle whose entry has no on-disk location *)
(* (the root Directory) never writes device sector 0.                    *)
C38_WritesInVolume ==
    [][res'.op \in {"file_delete", "dir_delete"} => res'.wr \subseteq VolumeSectors]_vars


----------------------------------------------------------------------------
(* Further claims on the cache tokens (SpecCache) *)

(* the guard of the slot that the drop of core c lets go: the youngest *)
Youngest(c, s) == CHOOSE i \in Guards(c, s) : \A j \in Guards(c, s) : j <= i

(* core c drops a guard of block_a in this step, taken by a claim or not *)
DropsBlockA(c, locked) ==
    /\ ~Returned(c)
    /\ At(c).op = "drop"
    /\ At(c).slot = "block_a"
    /\ Guards(c, "block_a") # {}
    /\ calls[c].held[Youngest(c, "block_a")].locked = locked
    /\ calls'[c].pc = calls[c].pc + 1

(* C39: a cache token is released only by the drop of a guard that        *)
(* claimed it: the drop of the guard that a File<Unsafe> took through     *)
(* block_a_nolock leaves the token of block_a as it was while a guard     *)
(* taken by a claim of block_a (a Reader's buf, another core's File) is   *)
(* still held                                                             *)
C39_NolockDropKeeps ==
    [][/\ (spin["block_a"] /\ ~spin'["block_a"]) => \E c \in Cores : DropsBlockA(c, TRUE)
       /\ \A c \in Cores :
            (DropsBlockA(c, FALSE) /\ LockedGuards("block_a") # {})
                => spin'["block_a"] = spin["block_a"]]_vars

(* C40: Directory::delete without force on a directory that holds only    *)
(* its self and parent records succeeds: the record of the directory is   *)
(* marked deleted and the call does not return NonEmptyDirectory          *)
C40_EmptyDirDeletes ==
    [][\A at \in DeleteDirs :
         (/\ res'.op = "dir_delete"
          /\ ~res'.arg
          /\ res'.path = at.path
          /\ at.cluster # 0
          /\ LiveChildren(dev, block_pos_at(at.cluster)) = {}) =>
             /\ res'.ok
             /\ res'.err # "NonEmptyDirectory"
             /\ Marked(dev', at)]_vars
====
